---- MODULE Spec2Model ----
(***************************************************************************)
(* A model of jimeh/go-mocktesting: the recording test double *T (t.go),   *)
(* the goroutine helper Go and the goroutines that run test bodies.  A     *)
(* body works on the *T it was given; Go and Run block their caller, so    *)
(* the live goroutines form a chain.  Text is a sequence of one-character  *)
(* strings, so that strings.ReplaceAll, string concatenation and the       *)
(* "#NN" suffix are computed character by character.                       *)
(***************************************************************************)
EXTENDS Integers, Sequences, FiniteSets, TLC

\* ------------------------------------------------------------------ bounds
MaxThreads == 3     \* goroutines of one run, the test's own goroutine included
MaxDoubles == 3     \* *T instances of one run, the root included
MaxSteps == 3       \* statements executed by all goroutines of one run together

VARIABLES
    T,      \* the heap of *T instances: a sequence of records, T[1] the root
    th,     \* the goroutines: th[1] is the goroutine of the test itself
    g       \* history per *T instance (what was called on it, who created it)

vars == <<T, th, g>>

\* -------------------------------------------------------------------- text
\* strings.ReplaceAll(s, old, new) for one-byte old and new.
ReplaceAll(s, old, new) == [i \in 1..Len(s) |-> IF s[i] = old THEN new ELSE s[i]]

Digits == <<"0", "1", "2", "3", "4", "5", "6", "7", "8", "9">>

RECURSIVE Itoa(_)
\* The decimal digits of a natural number (strconv / %d).
Itoa(n) == IF n < 10 THEN <<Digits[n + 1]>> ELSE Itoa(n \div 10) \o <<Digits[(n % 10) + 1]>>

\* fmt.Sprintf("%02d", i): decimal, zero-padded to a width of at least two.
Sprintf02d(i) == IF i < 10 THEN <<"0">> \o Itoa(i) ELSE Itoa(i)

RECURSIVE Join(_, _)
\* The operands' texts with sep between every two of them.
Join(args, sep) ==
    IF Len(args) = 0 THEN <<>>
    ELSE IF Len(args) = 1 THEN args[1].text
    ELSE args[1].text \o sep \o Join(Tail(args), sep)

\* fmt.Sprint(args...) with a newline: a space only between two operands
\* that are both not strings.
RECURSIVE Sprint(_)
Sprint(args) ==
    IF Len(args) = 0 THEN <<>>
    ELSE IF Len(args) = 1 THEN args[1].text
    ELSE args[1].text
         \o (IF ~args[1].str /\ ~args[2].str THEN <<" ">> ELSE <<>>)
         \o Sprint(Tail(args))

Sprintln_LikeSprint(args) == Sprint(args) \o <<"\n">>

\* fmt.Sprintln(args...): a space between all operands, a newline appended.
Sprintln(args) == Join(args, <<" ">>) \o <<"\n">>

\* The operands fmt lists as left over: "type=value", separated by ", ".
RECURSIVE Extra(_)
Extra(args) ==
    LET one == <<IF args[1].str THEN "string=" ELSE "int=">> \o args[1].text
    IN  IF Len(args) = 1 THEN one ELSE one \o <<", ">> \o Extra(Tail(args))

RECURSIVE Sprintf(_, _)
\* fmt.Sprintf(format, args...): the token "%v" is a verb and takes the
\* next operand's text; every other token is copied.  A verb without an
\* operand renders as fmt's "%!v(MISSING)"; operands left over at the end
\* of the format render as fmt's "%!(EXTRA type=value, ...)".
Sprintf(format, args) ==
    IF Len(format) = 0
    THEN IF Len(args) = 0 THEN <<>> ELSE <<"%!(EXTRA ">> \o Extra(args) \o <<")">>
    ELSE IF Head(format) = "%v"
         THEN IF Len(args) = 0
              THEN <<"%!v(MISSING)">> \o Sprintf(Tail(format), args)
              ELSE args[1].text \o Sprintf(Tail(format), Tail(args))
         ELSE <<Head(format)>> \o Sprintf(Tail(format), args)

\* ----------------------------------------------------------------- options
DefaultTimeout == 10        \* NewT: time.Now().Add(10 * time.Minute), in minutes
ZeroTime == 0               \* time.Time{}
NilTestingT == 0            \* testingT == nil
OsTempDir == <<"t">>        \* os.TempDir()

WithTimeout(d) == [opt |-> "WithTimeout", d |-> d]
WithDeadline(d) == [opt |-> "WithDeadline", d |-> d]
WithNoAbort == [opt |-> "WithNoAbort"]
WithBaseTempdir(dir) == [opt |-> "WithBaseTempdir", dir |-> dir]
WithTestingT(x) == [opt |-> "WithTestingT", testingT |-> x]

Apply_KeepsDeadline(t, o, now) ==
    CASE o.opt = "WithTimeout" ->
            IF o.d > 0 THEN [t EXCEPT !.timeout = TRUE, !.deadline = now + o.d]
            ELSE [t EXCEPT !.timeout = FALSE]
      [] o.opt = "WithDeadline" ->
            IF o.d # ZeroTime THEN [t EXCEPT !.timeout = TRUE, !.deadline = o.d]
            ELSE [t EXCEPT !.timeout = FALSE]
      [] o.opt = "WithNoAbort" -> [t EXCEPT !.abort = FALSE]
      [] o.opt = "WithBaseTempdir" ->
            IF o.dir # <<>> THEN [t EXCEPT !.baseTempdir = o.dir] ELSE t
      [] o.opt = "WithTestingT" -> [t EXCEPT !.testingT = o.testingT]

\* opt.apply(t) at time now.
Apply(t, o, now) ==
    CASE o.opt = "WithTimeout" ->
            IF o.d > 0 THEN [t EXCEPT !.timeout = TRUE, !.deadline = now + o.d]
            ELSE [t EXCEPT !.timeout = FALSE, !.deadline = ZeroTime]
      [] o.opt = "WithDeadline" ->
            IF o.d # ZeroTime THEN [t EXCEPT !.timeout = TRUE, !.deadline = o.d]
            ELSE [t EXCEPT !.timeout = FALSE, !.deadline = ZeroTime]
      [] o.opt = "WithNoAbort" -> [t EXCEPT !.abort = FALSE]
      [] o.opt = "WithBaseTempdir" ->
            IF o.dir # <<>> THEN [t EXCEPT !.baseTempdir = o.dir] ELSE t
      [] o.opt = "WithTestingT" -> [t EXCEPT !.testingT = o.testingT]

RECURSIVE ApplyAll_RightToLeft(_, _, _)
ApplyAll_RightToLeft(t, options, now) ==
    IF Len(options) = 0 THEN t
    ELSE Apply(ApplyAll_RightToLeft(t, Tail(options), now), Head(options), now)

RECURSIVE ApplyAll(_, _, _)
\* for _, opt := range options { opt.apply(t) }
ApplyAll(t, options, now) ==
    IF Len(options) = 0 THEN t
    ELSE ApplyAll(Apply(t, Head(options), now), Tail(options), now)

\* NewT(name, options...) called at time now.
NewT(name, options, now) ==
    ApplyAll([name |-> ReplaceAll(name, " ", "_"),
              abort |-> TRUE,
              baseTempdir |-> OsTempDir,
              testingT |-> NilTestingT,
              deadline |-> now + DefaultTimeout,
              timeout |-> TRUE,
              skipped |-> FALSE,
              failed |-> 0,
              parallel |-> FALSE,
              output |-> <<>>,
              helpers |-> <<>>,
              aborted |-> FALSE,
              cleanups |-> <<>>,
              env |-> <<>>,
              subtests |-> <<>>,
              tempdirs |-> <<>>,
              subtestNames |-> {}],
             options, now)

\* ----------------------------------------------------- operations of *T
\* A call runs in a context c = [T |-> the heap, exit |-> whether the calling
\* goroutine has called runtime.Goexit(), panic |-> whether it panicked,
\* ran |-> the callbacks the call invoked]; d is the receiver.
Ctx(h) == [T |-> h, exit |-> FALSE, panic |-> FALSE, ran |-> <<>>]

\* The calling goroutine no longer executes statements.
Stopped(c) == c.exit \/ c.panic

goexit_NeverExits(c, d) == [c EXCEPT !.T[d].aborted = TRUE]

goexit_AlwaysExits(c, d) == [c EXCEPT !.T[d].aborted = TRUE, !.exit = TRUE]

\* t.aborted = true; if t.abort { runtime.Goexit() }
goexit(c, d) == [c EXCEPT !.T[d].aborted = TRUE, !.exit = c.exit \/ c.T[d].abort]

Fail_Sets(c, d) == [c EXCEPT !.T[d].failed = 1]

Fail_Logs(c, d) == [c EXCEPT !.T[d].failed = @ + 1, !.T[d].output = Append(@, <<"\n">>)]

\* t.failed++
Fail(c, d) == [c EXCEPT !.T[d].failed = @ + 1]

FailNow_OnlyExits(c, d) == goexit(c, d)

FailNow(c, d) == goexit(Fail(c, d), d)

Failed(h, d) == h[d].failed > 0

FailedCount(h, d) == h[d].failed

Aborted(h, d) == h[d].aborted

Skipped(h, d) == h[d].skipped

Name(h, d) == h[d].name

Output(h, d) == h[d].output

Subtests(h, d) == h[d].subtests

Log_Sprint(c, d, args) == [c EXCEPT !.T[d].output = Append(@, Sprint(args) \o <<"\n">>)]

Log(c, d, args) == [c EXCEPT !.T[d].output = Append(@, Sprintln(args))]

Logf(c, d, format, args) ==
    LET f == IF Len(format) = 0 \/ format[Len(format)] # "\n"
             THEN format \o <<"\n">> ELSE format
    IN  [c EXCEPT !.T[d].output = Append(@, Sprintf(f, args))]

Error_FailsNow(c, d, args) == FailNow(Log(c, d, args), d)

Error(c, d, args) == Fail(Log(c, d, args), d)

Errorf(c, d, format, args) == Fail(Logf(c, d, format, args), d)

Fatal_LosesMessage(c, d, args) ==
    LET c1 == FailNow(c, d) IN IF c1.exit THEN c1 ELSE Log(c1, d, args)

Fatal(c, d, args) == FailNow(Log(c, d, args), d)

Fatalf(c, d, format, args) == FailNow(Logf(c, d, format, args), d)

SkipNow_Fails(c, d) == goexit([c EXCEPT !.T[d].skipped = TRUE, !.T[d].failed = @ + 1], d)

SkipNow(c, d) == goexit([c EXCEPT !.T[d].skipped = TRUE], d)

Skip(c, d, args) == SkipNow(Log(c, d, args), d)

Skipf(c, d, format, args) == SkipNow(Logf(c, d, format, args), d)

\* t.parallel = true
Parallel_Toggle(c, d) == [c EXCEPT !.T[d].parallel = ~@]

Parallel(c, d) == [c EXCEPT !.T[d].parallel = TRUE]

Paralleled(h, d) == h[d].parallel

\* runtime.Caller(skip) on a call stack (outermost function first, the
\* function that calls runtime.Caller last): the function skip frames up.
Caller(stack, skip) ==
    IF Len(stack) - skip >= 1
    THEN [ok |-> TRUE, fn |-> stack[Len(stack) - skip]]
    ELSE [ok |-> FALSE, fn |-> ""]

\* t.Helper() called with the call stack `stack` (its last function is the
\* one that calls Helper).
Helper_CallersCaller(c, d, stack) ==
    LET r == Caller(stack \o <<"Helper">>, 2)
    IN  IF ~r.ok THEN c ELSE [c EXCEPT !.T[d].helpers = Append(@, r.fn)]

Helper(c, d, stack) ==
    LET r == Caller(stack \o <<"Helper">>, 1)
    IN  IF ~r.ok THEN c ELSE [c EXCEPT !.T[d].helpers = Append(@, r.fn)]

HelperNames(h, d) == h[d].helpers

\* t.cleanups = append(t.cleanups, f)
Cleanup_RunsNow(c, d, f) == [c EXCEPT !.T[d].cleanups = Append(@, f), !.ran = Append(@, f)]

Cleanup(c, d, f) == [c EXCEPT !.T[d].cleanups = Append(@, f)]

CleanupFuncs(h, d) == h[d].cleanups

RECURSIVE CountTempDirs(_, _)
\* The directories recorded by the first k instances of the heap.
CountTempDirs(h, k) == IF k = 0 THEN 0 ELSE Len(h[k].tempdirs) + CountTempDirs(h, k - 1)

\* ioutil.TempDir(base, "go-mocktesting*"): with ok a new directory under
\* base, named with the prefix and a suffix no earlier directory has; an
\* empty path and an error otherwise.
MkdirTemp(h, base, ok) ==
    IF ok
    THEN [dir |-> base \o <<"/", "go-mocktesting">> \o Itoa(CountTempDirs(h, Len(h))),
          err |-> FALSE]
    ELSE [dir |-> <<>>, err |-> TRUE]

\* The error value internalError reports.
InternalErr ==
    <<[str |-> FALSE, text |-> <<"mocktesting: TempDir() failed to create directory: E">>]>>

\* t.internalError(err): Fatal on the reporter when there is one, panic
\* otherwise.
internalError_FailsReceiver(c, d) ==
    IF c.T[d].testingT # NilTestingT THEN Fatal(c, d, InternalErr)
    ELSE [c EXCEPT !.panic = TRUE]

internalError(c, d) ==
    IF c.T[d].testingT # NilTestingT
    THEN Fatal(c, c.T[d].testingT, InternalErr)
    ELSE [c EXCEPT !.panic = TRUE]

\* t.TempDir(), ok telling whether the directory can be created: the
\* context left and the path returned (ret; no value when the goroutine
\* stopped inside the call).
TempDir_SetsBase(c, d, ok) ==
    LET r == MkdirTemp(c.T, c.T[d].baseTempdir, ok)
        c1 == IF r.err THEN internalError(c, d) ELSE c
    IN  IF Stopped(c1) THEN [c |-> c1, returned |-> FALSE, ret |-> <<>>]
        ELSE [c |-> [c1 EXCEPT !.T[d].tempdirs = Append(@, r.dir),
                               !.T[d].baseTempdir = r.dir],
              returned |-> TRUE, ret |-> r.dir]

TempDir(c, d, ok) ==
    LET r == MkdirTemp(c.T, c.T[d].baseTempdir, ok)
        c1 == IF r.err THEN internalError(c, d) ELSE c
    IN  IF Stopped(c1) THEN [c |-> c1, returned |-> FALSE, ret |-> <<>>]
        ELSE [c |-> [c1 EXCEPT !.T[d].tempdirs = Append(@, r.dir)],
              returned |-> TRUE, ret |-> r.dir]

TempDirs(h, d) == h[d].tempdirs

\* t.Deadline(): the deadline and whether a timeout is set.
Deadline(h, d) == <<h[d].deadline, h[d].timeout>>

\* The map m with key set to value.
MapSet(m, key, value) ==
    [k \in DOMAIN m \cup {key} |-> IF k = key THEN value ELSE m[k]]

\* t.Setenv(key, value): recorded unless the key is empty.
Setenv(c, d, key, value) ==
    IF key # "" THEN [c EXCEPT !.T[d].env = MapSet(@, key, value)] ELSE c

\* t.Getenv(): a nil map is replaced by an empty one (both are <<>> here).
Getenv(h, d) == h[d].env

\* The inspectors that only read: what each returns.
Inspectors ==
    {"Name", "Deadline", "Failed", "FailedCount", "Aborted", "Skipped", "Output",
     "CleanupFuncs", "CleanupNames", "HelperNames", "Paralleled", "Subtests",
     "TempDirs", "Getenv"}

Inspect(h, d, which) ==
    CASE which = "Name" -> Name(h, d)
      [] which = "Deadline" -> Deadline(h, d)
      [] which = "Failed" -> Failed(h, d)
      [] which = "FailedCount" -> FailedCount(h, d)
      [] which = "Aborted" -> Aborted(h, d)
      [] which = "Skipped" -> Skipped(h, d)
      [] which = "Output" -> Output(h, d)
      [] which = "CleanupFuncs" -> CleanupFuncs(h, d)
      [] which = "CleanupNames" -> CleanupFuncs(h, d)
      [] which = "HelperNames" -> HelperNames(h, d)
      [] which = "Paralleled" -> Paralleled(h, d)
      [] which = "Subtests" -> Subtests(h, d)
      [] which = "TempDirs" -> TempDirs(h, d)
      [] which = "Getenv" -> Getenv(h, d)

\* The heap after an inspector returned: Subtests, TempDirs and Getenv
\* replace a nil slice or map by an empty one, the others write nothing.
Inspected(c, d, which) ==
    CASE which = "Subtests" -> [c EXCEPT !.T[d].subtests = IF @ = <<>> THEN <<>> ELSE @]
      [] which = "TempDirs" -> [c EXCEPT !.T[d].tempdirs = IF @ = <<>> THEN <<>> ELSE @]
      [] which = "Getenv" -> [c EXCEPT !.T[d].env = IF @ = <<>> THEN <<>> ELSE @]
      [] OTHER -> c

RECURSIVE newSubTestNameFrom(_, _, _)
\* The for loop of newSubTestName, entered with counter i.
newSubTestNameFrom(t, name, i) ==
    LET n == name \o <<"#">> \o Sprintf02d(i)
    IN  IF n \notin t.subtestNames THEN n ELSE newSubTestNameFrom(t, name, i + 1)

newSubTestName_NoCheck(t, name) == ReplaceAll(name, " ", "_")

newSubTestName(t, name) ==
    LET n == ReplaceAll(name, " ", "_")
    IN  IF n \notin t.subtestNames THEN n ELSE newSubTestNameFrom(t, n, 1)

fullname_NoParent(t, name) == name

\* Run, lines 395-398: the sub-test's full name.
fullname(t, name) == IF t.name # <<>> THEN t.name \o <<"/">> \o name ELSE name

\* Run up to the Go call: the heap with the sub-test created (it becomes the
\* last *T of the heap) and registered with its parent d.
RunRegister_Prepends(h, d, requested, now) ==
    LET name == newSubTestName(h[d], requested)
        subtest == [NewT(fullname(h[d], name), <<>>, now) EXCEPT
                        !.abort = h[d].abort,
                        !.baseTempdir = h[d].baseTempdir,
                        !.testingT = h[d].testingT,
                        !.deadline = h[d].deadline,
                        !.timeout = h[d].timeout]
    IN  Append([h EXCEPT ![d].subtests = <<Len(h) + 1>> \o @,
                         ![d].subtestNames = @ \cup {name}],
               subtest)

RunRegister_NoInherit(h, d, requested, now) ==
    LET name == newSubTestName(h[d], requested)
    IN  Append([h EXCEPT ![d].subtests = Append(@, Len(h) + 1),
                         ![d].subtestNames = @ \cup {name}],
               NewT(fullname(h[d], name), <<>>, now))

RunRegister_CopiesParent(h, d, requested, now) ==
    LET name == newSubTestName(h[d], requested)
        subtest == [h[d] EXCEPT !.name = fullname(h[d], name),
                                !.subtests = <<>>,
                                !.subtestNames = {}]
    IN  Append([h EXCEPT ![d].subtests = Append(@, Len(h) + 1),
                         ![d].subtestNames = @ \cup {name}],
               subtest)

RunRegister_RecordsRequested(h, d, requested, now) ==
    LET name == newSubTestName(h[d], requested)
        subtest == [NewT(fullname(h[d], name), <<>>, now) EXCEPT
                        !.abort = h[d].abort,
                        !.baseTempdir = h[d].baseTempdir,
                        !.testingT = h[d].testingT,
                        !.deadline = h[d].deadline,
                        !.timeout = h[d].timeout]
    IN  Append([h EXCEPT ![d].subtests = Append(@, Len(h) + 1),
                         ![d].subtestNames = @ \cup {ReplaceAll(requested, " ", "_")}],
               subtest)

RunRegister(h, d, requested, now) ==
    LET name == newSubTestName(h[d], requested)
        subtest == [NewT(fullname(h[d], name), <<>>, now) EXCEPT
                        !.abort = h[d].abort,
                        !.baseTempdir = h[d].baseTempdir,
                        !.testingT = h[d].testingT,
                        !.deadline = h[d].deadline,
                        !.timeout = h[d].timeout]
    IN  Append([h EXCEPT ![d].subtests = Append(@, Len(h) + 1),
                         ![d].subtestNames = @ \cup {name}],
               subtest)

RunPropagate_Aborts(c, d, s) ==
    IF Failed(c.T, s) THEN [Fail(c, d) EXCEPT !.T[d].aborted = c.T[s].aborted] ELSE c

RunPropagate_Never(c, d, s) == c

RunPropagate_Sum(c, d, s) == [c EXCEPT !.T[d].failed = @ + c.T[s].failed]

\* Run after the Go call: if subtest.Failed() { t.Fail() }
RunPropagate(c, d, s) == IF Failed(c.T, s) THEN Fail(c, d) ELSE c

RunResult_Unskipped(h, s) == ~Failed(h, s) /\ ~Skipped(h, s)

\* Run's return value: !subtest.Failed()
RunResult(h, s) == ~Failed(h, s)

\* ------------------------------------------------------------- goroutines
\* A goroutine record: t the *T its function was given, pc its position
\* ("run": executing its function, "wait": blocked in wg.Wait() of Go,
\* "done": its function returned, "goexit": ended by runtime.Goexit(),
\* "panic": panicking, "recovered": its function recovered and returned),
\* parent the goroutine that started it with Go (0 for the test's own),
\* child the goroutine it waits for, wg the counter of the WaitGroup of the
\* Go call it is in, recv and sub the receiver and the sub-test of the Run
\* call it is in (0 outside Run), n the statements it has executed.
\* History: term the value of n after its terminating call on an aborting
\* *T termT (0: none), cont the same for a non-aborting *T contT.
NewThread(t, parent) ==
    [t |-> t, pc |-> "run", parent |-> parent, child |-> 0, wg |-> 0,
     recv |-> 0, sub |-> 0, n |-> 0,
     term |-> 0, termT |-> 0, cont |-> 0, contT |-> 0]

\* wg.Add(1)
wgAdd(ths, p) == [ths EXCEPT ![p].wg = @ + 1]

wgWait_NoWait(ths, p) == TRUE

\* wg.Wait() returns
wgWait(ths, p) == ths[p].wg = 0

Exit_NotDeferred(ths, q, how) ==
    IF ths[q].parent # 0 /\ how = "done"
    THEN [ths EXCEPT ![q].pc = how, ![ths[q].parent].wg = @ - 1]
    ELSE [ths EXCEPT ![q].pc = how]

Exit_KillsParent(ths, q, how) ==
    IF ths[q].parent # 0
    THEN [ths EXCEPT ![q].pc = how,
                     ![ths[q].parent].wg = @ - 1,
                     ![ths[q].parent].pc = IF how = "goexit" THEN how ELSE @]
    ELSE [ths EXCEPT ![q].pc = how]

\* The end of the goroutine Go started, by return or by runtime.Goexit():
\* the deferred wg.Done() runs in both cases.  The test's own goroutine has
\* no WaitGroup.
Exit(ths, q, how) ==
    IF ths[q].parent # 0
    THEN [ths EXCEPT ![q].pc = how, ![ths[q].parent].wg = @ - 1]
    ELSE [ths EXCEPT ![q].pc = how]

GoStart_NoAdd(ths, p, t) ==
    Append([ths EXCEPT ![p].pc = "wait", ![p].child = Len(ths) + 1, ![p].n = @ + 1],
           NewThread(t, p))

\* Go(f) up to wg.Wait(): p's WaitGroup is incremented and the goroutine
\* that runs f on t is started.
GoStart(ths, p, t) ==
    Append([wgAdd(ths, p) EXCEPT ![p].pc = "wait",
                                 ![p].child = Len(ths) + 1,
                                 ![p].n = @ + 1],
           NewThread(t, p))

\* ------------------------------------------------------------------ inputs
RootNames == {<<>>, <<"P", " ", "Q">>}
RootOptions == {<<>>, <<WithNoAbort>>}
StartTimes == {1}
Times == {1, 2}
RunNames == {<<"a", " ", "b">>, <<"a", "_", "b">>}
LogArgs == {<<[str |-> TRUE, text |-> <<"m">>]>>}
LogfCalls == {[format |-> <<"%v">>, args |-> <<[str |-> TRUE, text |-> <<"m">>]>>]}

\* History of a *T: the *T whose Run created it, the name requested, what
\* that Run returned, the failure calls made on it, its Run calls that found
\* the child failed, the direct callers of its Helper calls, the callbacks
\* given to its Cleanup calls, the paths its TempDir calls returned, the
\* number of callbacks the calls on it invoked, its Parallel calls, and,
\* where a claim is about them, the options and the time NewT was given.
NewHist(parent, req) ==
    [parent |-> parent, req |-> req, ret |-> "none", calls |-> 0, props |-> 0,
     hcalls |-> <<>>, cleans |-> <<>>, dirs |-> <<>>, ran |-> 0, par |-> 0,
     opts |-> <<>>, now |-> 0]

Init ==
    \E name \in RootNames, options \in RootOptions, now \in StartTimes :
        /\ T = <<NewT(name, options, now)>>
        /\ th = <<NewThread(1, 0)>>
        /\ g = <<NewHist(0, <<>>)>>

\* The *T instances the function run by goroutine p calls: the one it was
\* given.
Reach(p) == {th[p].t}

RECURSIVE Steps(_, _)
\* The statements executed by the first k goroutines together.
Steps(ths, k) == IF k = 0 THEN 0 ELSE ths[k].n + Steps(ths, k - 1)

Running(p) == p \in DOMAIN th /\ th[p].pc = "run" /\ Steps(th, Len(th)) < MaxSteps

\* Goroutine p has executed a call on d that left context c; failing: the
\* call is one of Fail, Error, Errorf, FailNow, Fatal, Fatalf; terminating:
\* it is one of FailNow, Fatal, Fatalf, SkipNow, Skip, Skipf.
\* hist is the history with what the call itself adds to it.
CalledWith(p, d, c, failing, terminating, hist) ==
    /\ T' = c.T
    /\ th' = LET n == th[p].n + 1
                 ths == [th EXCEPT
                            ![p].n = n,
                            ![p].term = IF terminating /\ T[d].abort THEN n ELSE @,
                            ![p].termT = IF terminating /\ T[d].abort THEN d ELSE @,
                            ![p].cont = IF terminating /\ ~T[d].abort THEN n ELSE @,
                            ![p].contT = IF terminating /\ ~T[d].abort THEN d ELSE @]
             IN  IF c.panic THEN [ths EXCEPT ![p].pc = "panic"]
                 ELSE IF c.exit THEN Exit(ths, p, "goexit") ELSE ths
    /\ g' = [hist EXCEPT ![d].calls = IF failing THEN @ + 1 ELSE @,
                         ![d].ran = @ + Len(c.ran)]

Called(p, d, c, failing, terminating) == CalledWith(p, d, c, failing, terminating, g)

CallFail(p, d) == Running(p) /\ d \in Reach(p) /\ Called(p, d, Fail(Ctx(T), d), TRUE, FALSE)

CallFailNow(p, d) ==
    Running(p) /\ d \in Reach(p) /\ Called(p, d, FailNow(Ctx(T), d), TRUE, TRUE)

CallError(p, d, args) ==
    Running(p) /\ d \in Reach(p) /\ Called(p, d, Error(Ctx(T), d, args), TRUE, FALSE)

CallErrorf(p, d, f) ==
    Running(p) /\ d \in Reach(p)
    /\ Called(p, d, Errorf(Ctx(T), d, f.format, f.args), TRUE, FALSE)

CallFatal(p, d, args) ==
    Running(p) /\ d \in Reach(p) /\ Called(p, d, Fatal(Ctx(T), d, args), TRUE, TRUE)

CallFatalf(p, d, f) ==
    Running(p) /\ d \in Reach(p)
    /\ Called(p, d, Fatalf(Ctx(T), d, f.format, f.args), TRUE, TRUE)

CallLog(p, d, args) ==
    Running(p) /\ d \in Reach(p) /\ Called(p, d, Log(Ctx(T), d, args), FALSE, FALSE)

CallLogf(p, d, f) ==
    Running(p) /\ d \in Reach(p)
    /\ Called(p, d, Logf(Ctx(T), d, f.format, f.args), FALSE, FALSE)

CallSkipNow(p, d) ==
    Running(p) /\ d \in Reach(p) /\ Called(p, d, SkipNow(Ctx(T), d), FALSE, TRUE)

CallSkip(p, d, args) ==
    Running(p) /\ d \in Reach(p) /\ Called(p, d, Skip(Ctx(T), d, args), FALSE, TRUE)

CallSkipf(p, d, f) ==
    Running(p) /\ d \in Reach(p)
    /\ Called(p, d, Skipf(Ctx(T), d, f.format, f.args), FALSE, TRUE)

\* Go(f), f a function that works on p's own *T: up to wg.Wait().
CallGo(p) ==
    /\ Running(p)
    /\ Len(th) < MaxThreads
    /\ th' = GoStart(th, p, th[p].t)
    /\ UNCHANGED <<T, g>>

\* wg.Wait() of a Go call made directly returns.
GoReturn(p) ==
    /\ p \in DOMAIN th
    /\ th[p].pc = "wait"
    /\ th[p].sub = 0
    /\ wgWait(th, p)
    /\ th' = [th EXCEPT ![p].pc = "run", ![p].child = 0]
    /\ UNCHANGED <<T, g>>

\* d.Run(requested, f): up to wg.Wait() of the Go call that runs f(subtest).
CallRun(p, d, requested, now) ==
    /\ Running(p)
    /\ d \in Reach(p)
    /\ Len(th) < MaxThreads
    /\ Len(T) < MaxDoubles
    /\ T' = RunRegister(T, d, requested, now)
    /\ th' = [GoStart(th, p, Len(T) + 1) EXCEPT ![p].recv = d, ![p].sub = Len(T) + 1]
    /\ g' = Append(g, NewHist(d, requested))

\* Run from the return of wg.Wait() to its own return.
RunReturn(p) ==
    /\ p \in DOMAIN th
    /\ th[p].pc = "wait"
    /\ th[p].sub # 0
    /\ wgWait(th, p)
    /\ LET d == th[p].recv
           s == th[p].sub
           c == RunPropagate(Ctx(T), d, s)
       IN  /\ T' = c.T
           /\ g' = [g EXCEPT ![s].ret = IF RunResult(c.T, s) THEN "true" ELSE "false",
                             ![d].props = IF T[s].failed > 0 THEN @ + 1 ELSE @]
    /\ th' = [th EXCEPT ![p].pc = "run", ![p].child = 0, ![p].recv = 0, ![p].sub = 0]

\* The function of goroutine p returns.
Return(p) ==
    /\ p \in DOMAIN th
    /\ th[p].pc = "run"
    /\ th' = Exit(th, p, "done")
    /\ UNCHANGED <<T, g>>

\* t.Parallel()
CallParallel(p, d) ==
    /\ Running(p) /\ d \in Reach(p)
    /\ CalledWith(p, d, Parallel(Ctx(T), d), FALSE, FALSE, [g EXCEPT ![d].par = @ + 1])

\* t.Helper(), called by the last function of the call stack `stack`.
CallHelper(p, d, stack) ==
    /\ Running(p)
    /\ d \in Reach(p)
    /\ CalledWith(p, d, Helper(Ctx(T), d, stack), FALSE, FALSE,
                  [g EXCEPT ![d].hcalls = Append(@, stack[Len(stack)])])

\* t.Cleanup(f)
CallCleanup(p, d, f) ==
    /\ Running(p)
    /\ d \in Reach(p)
    /\ CalledWith(p, d, Cleanup(Ctx(T), d, f), FALSE, FALSE,
                  [g EXCEPT ![d].cleans = Append(@, f)])

\* t.TempDir(), the directory creation succeeding (ok) or failing.  A
\* failure with a reporter is a Fatal call on the reporter.
CallTempDir(p, d, ok) ==
    /\ Running(p)
    /\ d \in Reach(p)
    /\ LET r == TempDir(Ctx(T), d, ok)
           hist == IF ok /\ r.returned THEN [g EXCEPT ![d].dirs = Append(@, r.ret)] ELSE g
       IN  IF ~ok /\ T[d].testingT # NilTestingT
           THEN CalledWith(p, T[d].testingT, r.c, TRUE, TRUE, hist)
           ELSE CalledWith(p, d, r.c, FALSE, FALSE, hist)

\* t.Setenv(key, value)
CallSetenv(p, d, key, value) ==
    /\ Running(p)
    /\ d \in Reach(p)
    /\ Called(p, d, Setenv(Ctx(T), d, key, value), FALSE, FALSE)

\* A call of one of the inspectors.
CallInspect(p, d, which) ==
    /\ Running(p)
    /\ d \in Reach(p)
    /\ Called(p, d, Inspected(Ctx(T), d, which), FALSE, FALSE)

\* The function of the panicking goroutine p has a deferred recover(): it
\* returns.  Without one the panic ends the process: nothing happens any more.
Recover(p) ==
    /\ p \in DOMAIN th
    /\ th[p].pc = "panic"
    /\ th' = Exit(th, p, "recovered")
    /\ UNCHANGED <<T, g>>

Threads == 1..MaxThreads
Doubles == 1..MaxDoubles

Next ==
    \/ \E p \in Threads, d \in Doubles : CallFail(p, d)
    \/ \E p \in Threads, d \in Doubles : CallFailNow(p, d)
    \/ \E p \in Threads, d \in Doubles, args \in LogArgs : CallError(p, d, args)
    \/ \E p \in Threads, d \in Doubles, f \in LogfCalls : CallErrorf(p, d, f)
    \/ \E p \in Threads, d \in Doubles, args \in LogArgs : CallFatal(p, d, args)
    \/ \E p \in Threads, d \in Doubles, f \in LogfCalls : CallFatalf(p, d, f)
    \/ \E p \in Threads, d \in Doubles, args \in LogArgs : CallLog(p, d, args)
    \/ \E p \in Threads, d \in Doubles, f \in LogfCalls : CallLogf(p, d, f)
    \/ \E p \in Threads, d \in Doubles : CallSkipNow(p, d)
    \/ \E p \in Threads, d \in Doubles, args \in LogArgs : CallSkip(p, d, args)
    \/ \E p \in Threads, d \in Doubles, f \in LogfCalls : CallSkipf(p, d, f)
    \/ \E p \in Threads : CallGo(p)
    \/ \E p \in Threads : GoReturn(p)
    \/ \E p \in Threads, d \in Doubles, requested \in RunNames, now \in Times :
            CallRun(p, d, requested, now)
    \/ \E p \in Threads : RunReturn(p)
    \/ \E p \in Threads : Return(p)

Spec == Init /\ [][Next]_vars

\* The whole *T: the root may have a reporter (WithTestingT), itself a *T,
\* T[2], aborting or not.
Reporter == 2
ReporterName == <<"r">>
ReporterOptions == {<<>>, <<WithNoAbort>>}
ConfiguredOptions ==
    {<<WithTestingT(Reporter), WithBaseTempdir(<<"b">>), WithTimeout(0)>>}
FullRootName == <<"P">>
HelperStacks == {<<"g", "f">>, <<"g">>}
CleanupFns == {"c1", "c2"}

FullInit ==
    /\ th = <<NewThread(1, 0)>>
    /\ \E now \in StartTimes :
        \/ \E options \in RootOptions :
                /\ T = <<NewT(FullRootName, options, now)>>
                /\ g = <<NewHist(0, <<>>)>>
        \/ \E options \in ConfiguredOptions, ropts \in ReporterOptions :
                /\ T = <<NewT(FullRootName, options, now), NewT(ReporterName, ropts, now)>>
                /\ g = <<NewHist(0, <<>>), NewHist(0, <<>>)>>

FullNext ==
    \/ Next
    \/ \E p \in Threads, d \in Doubles : CallParallel(p, d)
    \/ \E p \in Threads, d \in Doubles, stack \in HelperStacks : CallHelper(p, d, stack)
    \/ \E p \in Threads, d \in Doubles, f \in CleanupFns : CallCleanup(p, d, f)
    \/ \E p \in Threads, d \in Doubles, ok \in BOOLEAN : CallTempDir(p, d, ok)
    \/ \E p \in Threads : Recover(p)

FullSpec == FullInit /\ [][FullNext]_vars

\* Run calls issued one after another on the root, each with a body that
\* returns at once: the state is [T, g] (the body's goroutine has come and
\* gone).  The root starts with PriorRuns earlier sub-tests of one name.
MaxNameRuns == 3
PriorName == <<"a">>
PriorRuns == {0, 99}
NameInputs == {<<"a">>, <<"a", " ", "b">>, <<"a", "_", "b">>, <<"a", "#", "0", "1">>}

\* The whole of d.Run(requested, func(testing.TB) {}).
RunEmpty(st, d, requested, now) ==
    LET s == Len(st.T) + 1
        c == RunPropagate(Ctx(RunRegister(st.T, d, requested, now)), d, s)
    IN  [T |-> c.T,
         g |-> Append(st.g, [NewHist(d, requested) EXCEPT
                                !.ret = IF RunResult(c.T, s) THEN "true" ELSE "false"])]

RECURSIVE RunEmptyUntil(_, _, _, _, _)
\* Such Run calls with the same requested name, repeated until the heap
\* holds size doubles (each call creates one); the calls are made in
\* order, the first half of them and then the rest.
RunEmptyUntil(st, d, requested, now, size) ==
    IF Len(st.T) >= size THEN st
    ELSE IF Len(st.T) + 1 = size THEN RunEmpty(st, d, requested, now)
    ELSE RunEmptyUntil(RunEmptyUntil(st, d, requested, now, (Len(st.T) + size) \div 2),
                       d, requested, now, size)

NameInit ==
    /\ th = <<NewThread(1, 0)>>
    /\ \E now \in StartTimes, k \in PriorRuns :
            LET st == RunEmptyUntil([T |-> <<NewT(FullRootName, <<>>, now)>>,
                                     g |-> <<NewHist(0, <<>>)>>],
                                    1, PriorName, now, 1 + k)
            IN  T = st.T /\ g = st.g

\* One more such Run call on the root.
CallRunEmpty(requested, now) ==
    /\ th[1].n < MaxNameRuns
    /\ LET st == RunEmpty([T |-> T, g |-> g], 1, requested, now)
       IN  T' = st.T /\ g' = st.g
    /\ th' = [th EXCEPT ![1].n = @ + 1]

NameSpec == NameInit /\ [][\E requested \in NameInputs, now \in Times : CallRunEmpty(requested, now)]_vars

\* NewT alone: one call, with up to MaxOptions options.
MaxOptions == 3
Options ==
    {WithTimeout(0), WithTimeout(5), WithDeadline(ZeroTime), WithDeadline(7),
     WithNoAbort, WithBaseTempdir(<<>>), WithBaseTempdir(<<"b">>),
     WithTestingT(Reporter), WithTestingT(NilTestingT)}

RECURSIVE OptionLists(_)
\* The lists of at most k options.
OptionLists(k) ==
    IF k = 0 THEN {<<>>}
    ELSE LET shorter == OptionLists(k - 1)
         IN  shorter \cup {Append(l, o) : l \in shorter, o \in Options}

\* No *T has been constructed yet.
OptInit == T = <<>> /\ th = <<NewThread(1, 0)>> /\ g = <<>>

\* The test calls NewT(name, options...) at time now.
CallNewT(name, options, now) ==
    /\ T = <<>>
    /\ T' = <<NewT(name, options, now)>>
    /\ g' = <<[NewHist(0, <<>>) EXCEPT !.opts = options, !.now = now]>>
    /\ th' = [th EXCEPT ![1].n = @ + 1]

OptNext ==
    \E name \in RootNames, options \in OptionLists(MaxOptions), now \in Times :
        CallNewT(name, options, now)

OptSpec == OptInit /\ [][OptNext]_vars

\* Every method of *T, the inspectors included, on a default root and on a
\* configured root with a reporter.
EnvKeys == {"", "K"}
EnvValues == {"v", "w"}

AllInit ==
    /\ th = <<NewThread(1, 0)>>
    /\ \E now \in StartTimes :
        \/ /\ T = <<NewT(FullRootName, <<>>, now)>>
           /\ g = <<NewHist(0, <<>>)>>
        \/ \E options \in ConfiguredOptions :
                /\ T = <<NewT(FullRootName, options, now), NewT(ReporterName, <<>>, now)>>
                /\ g = <<NewHist(0, <<>>), NewHist(0, <<>>)>>

AllNext ==
    \/ FullNext
    \/ \E p \in Threads, d \in Doubles, key \in EnvKeys, value \in EnvValues :
            CallSetenv(p, d, key, value)
    \/ \E p \in Threads, d \in Doubles, which \in Inspectors : CallInspect(p, d, which)

AllSpec == AllInit /\ [][AllNext]_vars

\* The logging methods alone: one call on a *T without output or with one
\* earlier entry, with up to MaxArgs operands.
MaxArgs == 2
Operands ==
    {[str |-> TRUE, text |-> <<"a">>], [str |-> TRUE, text |-> <<"b", "\n">>],
     [str |-> TRUE, text |-> <<>>], [str |-> FALSE, text |-> <<"4">>]}
Formats == {<<>>, <<"x">>, <<"%v">>, <<"x", "\n">>, <<"%v", "\n">>, <<"\n", "%v">>}

RECURSIVE ArgLists(_)
\* The lists of at most k operands.
ArgLists(k) ==
    IF k = 0 THEN {<<>>}
    ELSE LET shorter == ArgLists(k - 1)
         IN  shorter \cup {Append(l, a) : l \in shorter, a \in Operands}

FormatCalls == [format : Formats, args : ArgLists(MaxArgs)]

TextInit ==
    /\ th = <<NewThread(1, 0)>>
    /\ g = <<NewHist(0, <<>>)>>
    /\ \E now \in StartTimes, options \in RootOptions :
        \/ T = <<NewT(FullRootName, options, now)>>
        \/ \E args \in LogArgs : T = Log(Ctx(<<NewT(FullRootName, options, now)>>), 1, args).T

\* The goroutine of the test has not made its call yet.
Fresh == th[1].n = 0

TextNext ==
    \/ \E args \in ArgLists(MaxArgs) : Fresh /\ CallLog(1, 1, args)
    \/ \E args \in ArgLists(MaxArgs) : Fresh /\ CallError(1, 1, args)
    \/ \E args \in ArgLists(MaxArgs) : Fresh /\ CallFatal(1, 1, args)
    \/ \E args \in ArgLists(MaxArgs) : Fresh /\ CallSkip(1, 1, args)
    \/ \E f \in FormatCalls : Fresh /\ CallLogf(1, 1, f)
    \/ \E f \in FormatCalls : Fresh /\ CallErrorf(1, 1, f)
    \/ \E f \in FormatCalls : Fresh /\ CallFatalf(1, 1, f)
    \/ \E f \in FormatCalls : Fresh /\ CallSkipf(1, 1, f)

TextSpec == TextInit /\ [][TextNext]_vars

\* NewT with the options that bear on the deadline, then Run calls with
\* empty bodies on any *T there is: the state is [T, g].
TimeOptions ==
    {WithTimeout(-1), WithTimeout(0), WithTimeout(5), WithDeadline(ZeroTime),
     WithDeadline(7), WithNoAbort}

RECURSIVE TimeOptionLists(_)
\* The lists of at most k of these options.
TimeOptionLists(k) ==
    IF k = 0 THEN {<<>>}
    ELSE LET shorter == TimeOptionLists(k - 1)
         IN  shorter \cup {Append(l, o) : l \in shorter, o \in TimeOptions}

\* d.Run(PriorName, func(testing.TB) {}) at time now.
CallRunOn(d, now) ==
    /\ d \in DOMAIN T
    /\ Len(T) < MaxDoubles
    /\ LET st == RunEmpty([T |-> T, g |-> g], d, PriorName, now)
       IN  T' = st.T /\ g' = st.g
    /\ th' = [th EXCEPT ![1].n = @ + 1]

TimeNext ==
    \/ \E options \in TimeOptionLists(MaxOptions), now \in Times :
            CallNewT(FullRootName, options, now)
    \/ \E d \in Doubles, now \in Times : CallRunOn(d, now)

TimeSpec == OptInit /\ [][TimeNext]_vars

\* Goroutines that work on one *T at the same time, each making one call.
\* The statements of a method that run outside t.mux are steps of their
\* own; a section between Lock/RLock and Unlock is one step, as no other
\* such section can interleave with it.  The *T carries, besides its
\* fields, whether t.subtests and t.tempdirs are nil.  A goroutine is
\* [t, op, pc, failed, isNil, name, dir, sub]: its *T, its method, its
\* position and its local values.
MaxRacers == 2
RaceOps == {"Fail", "Run", "Subtests", "TempDir", "TempDirs"}
RaceName == <<"a">>

Racer(op) ==
    [t |-> 1, op |-> op, pc |-> "start", failed |-> 0, isNil |-> FALSE,
     name |-> <<>>, dir |-> <<>>, sub |-> 0]

RaceInit ==
    /\ \E now \in StartTimes :
            T = <<NewT(FullRootName, <<>>, now) @@ [subtestsNil |-> TRUE, tempdirsNil |-> TRUE]>>
    /\ th \in [1..MaxRacers -> {Racer(op) : op \in RaceOps}]
    /\ g = <<NewHist(0, <<>>)>>

\* Goroutine q is at position pc of method op.
At(q, op, pc) == q \in DOMAIN th /\ th[q].op = op /\ th[q].pc = pc

\* Fail, t.failed++: the read of t.failed.
FailLoad(q) ==
    /\ At(q, "Fail", "start")
    /\ th' = [th EXCEPT ![q].pc = "store", ![q].failed = T[1].failed]
    /\ UNCHANGED <<T, g>>

\* Fail, t.failed++: the write of the incremented value; Fail returns.
FailStore(q) ==
    /\ At(q, "Fail", "store")
    /\ T' = [T EXCEPT ![1].failed = th[q].failed + 1]
    /\ th' = [th EXCEPT ![q].pc = "done"]
    /\ g' = [g EXCEPT ![1].calls = @ + 1]

\* Run: t.newSubTestName(name), outside the lock.
RunName(q) ==
    /\ At(q, "Run", "start")
    /\ th' = [th EXCEPT ![q].pc = "register", ![q].name = newSubTestName(T[1], RaceName)]
    /\ UNCHANGED <<T, g>>

\* Run: NewT and the locked section that appends the sub-test and records
\* its name.
RunAppend(q, now) ==
    /\ At(q, "Run", "register")
    /\ LET subtest == [NewT(fullname(T[1], th[q].name), <<>>, now) EXCEPT
                           !.abort = T[1].abort,
                           !.baseTempdir = T[1].baseTempdir,
                           !.testingT = T[1].testingT,
                           !.deadline = T[1].deadline,
                           !.timeout = T[1].timeout]
       IN  T' = Append([T EXCEPT ![1].subtests = Append(@, Len(T) + 1),
                                 ![1].subtestsNil = FALSE,
                                 ![1].subtestNames = @ \cup {th[q].name}],
                       subtest @@ [subtestsNil |-> TRUE, tempdirsNil |-> TRUE])
    /\ th' = [th EXCEPT ![q].pc = "body", ![q].sub = Len(T) + 1]
    /\ g' = Append(g, NewHist(1, RaceName))

\* Run: the body (empty) has run in its goroutine; the sub-test is not
\* failed and Run returns true.
RunFinish(q) ==
    /\ At(q, "Run", "body")
    /\ th' = [th EXCEPT ![q].pc = "done"]
    /\ g' = [g EXCEPT ![th[q].sub].ret = IF RunResult(T, th[q].sub) THEN "true" ELSE "false"]
    /\ UNCHANGED T

\* Subtests: if t.subtests == nil, outside the lock.
SubtestsCheck(q) ==
    /\ At(q, "Subtests", "start")
    /\ th' = [th EXCEPT ![q].isNil = T[1].subtestsNil,
                        ![q].pc = IF T[1].subtestsNil THEN "init" ELSE "read"]
    /\ UNCHANGED <<T, g>>

\* Subtests: Lock; t.subtests = []*T{}; Unlock.
SubtestsInit(q) ==
    /\ At(q, "Subtests", "init")
    /\ T' = [T EXCEPT ![1].subtests = <<>>, ![1].subtestsNil = FALSE]
    /\ th' = [th EXCEPT ![q].pc = "read"]
    /\ UNCHANGED g

\* Subtests: RLock; return t.subtests.
SubtestsRead(q) ==
    /\ At(q, "Subtests", "read")
    /\ th' = [th EXCEPT ![q].pc = "done"]
    /\ UNCHANGED <<T, g>>

\* TempDir: the directory is created, with a name no other call gets.
TempDirCreate(q) ==
    /\ At(q, "TempDir", "start")
    /\ th' = [th EXCEPT ![q].pc = "append",
                        ![q].dir = T[1].baseTempdir \o <<"/", "go-mocktesting">> \o Itoa(q)]
    /\ UNCHANGED <<T, g>>

\* TempDir: Lock; t.tempdirs = append(t.tempdirs, dir); return dir.
TempDirAppend(q) ==
    /\ At(q, "TempDir", "append")
    /\ T' = [T EXCEPT ![1].tempdirs = Append(@, th[q].dir), ![1].tempdirsNil = FALSE]
    /\ th' = [th EXCEPT ![q].pc = "done"]
    /\ g' = [g EXCEPT ![1].dirs = Append(@, th[q].dir)]

\* TempDirs: if t.tempdirs == nil, outside the lock.
TempDirsCheck(q) ==
    /\ At(q, "TempDirs", "start")
    /\ th' = [th EXCEPT ![q].isNil = T[1].tempdirsNil,
                        ![q].pc = IF T[1].tempdirsNil THEN "init" ELSE "read"]
    /\ UNCHANGED <<T, g>>

\* TempDirs: Lock; t.tempdirs = []string{}; Unlock.
TempDirsInit(q) ==
    /\ At(q, "TempDirs", "init")
    /\ T' = [T EXCEPT ![1].tempdirs = <<>>, ![1].tempdirsNil = FALSE]
    /\ th' = [th EXCEPT ![q].pc = "read"]
    /\ UNCHANGED g

\* TempDirs: RLock; return t.tempdirs.
TempDirsRead(q) ==
    /\ At(q, "TempDirs", "read")
    /\ th' = [th EXCEPT ![q].pc = "done"]
    /\ UNCHANGED <<T, g>>

Racers == 1..MaxRacers

RaceNext ==
    \/ \E q \in Racers : FailLoad(q)
    \/ \E q \in Racers : FailStore(q)
    \/ \E q \in Racers : RunName(q)
    \/ \E q \in Racers, now \in Times : RunAppend(q, now)
    \/ \E q \in Racers : RunFinish(q)
    \/ \E q \in Racers : SubtestsCheck(q)
    \/ \E q \in Racers : SubtestsInit(q)
    \/ \E q \in Racers : SubtestsRead(q)
    \/ \E q \in Racers : TempDirCreate(q)
    \/ \E q \in Racers : TempDirAppend(q)
    \/ \E q \in Racers : TempDirsCheck(q)
    \/ \E q \in Racers : TempDirsInit(q)
    \/ \E q \in Racers : TempDirsRead(q)

RaceSpec == RaceInit /\ [][RaceNext]_vars

\* The methods statement by statement, t.mux included.  A *T carries its
\* sync.RWMutex as mux = [w, r]: the goroutine that holds the write lock
\* (0: none) and the goroutines that hold a read lock; and whether
\* t.subtests, t.tempdirs and t.env are nil.  A goroutine is
\* [frames, pc, arg, parent, name, sub]: the calls it is in, innermost last,
\* each [t, op, at] (receiver, method, position in the method's program);
\* its state ("run", "wait": blocked in wg.Wait() of Run's Go call, "done",
\* "goexit", "panic"); whether the operand of its Log, Fatal or Skip call
\* is a plain value or has a String method that calls Log on a *T; the
\* goroutine whose Run call started it (0: none); and, in Run, the name
\* chosen and the sub-test made.
FreeMux == [w |-> 0, r |-> {}]

\* NewT with the zero values of the fields the model adds.
NewMuxT(name, options, now) ==
    NewT(name, options, now)
        @@ [mux |-> FreeMux, subtestsNil |-> TRUE, tempdirsNil |-> TRUE, envNil |-> TRUE]

\* One statement: what it does and the field it reads or writes.
Stmt(do, f) == [do |-> do, f |-> f]

\* The three statements of a method that checks a field for nil outside
\* the lock, makes it empty under the write lock and returns it under the
\* read lock.
NilChecked(f) ==
    <<Stmt("ifnil", f), Stmt("Lock", ""), Stmt("zero", f), Stmt("Unlock", ""),
      Stmt("RLock", ""), Stmt("read", f), Stmt("RUnlock", "")>>

\* Run: the name and the sub-test are made outside the lock, the sub-test
\* is registered under it, and the lock is released before Go(f).
RunProgram ==
    <<Stmt("name", "subtestNames"), Stmt("Lock", ""), Stmt("write", "subtests"),
      Stmt("Unlock", ""), Stmt("Go", ""), Stmt("join", "")>>

\* The statements of each method, in order.  Unlock and RUnlock stand where
\* the deferred call runs, at the return.
Program(op) ==
    CASE op = "Log" ->
            <<Stmt("Lock", ""), Stmt("format", ""), Stmt("write", "output"), Stmt("Unlock", "")>>
      [] op = "Fatal" ->
            <<Stmt("Lock", ""), Stmt("format", ""), Stmt("write", "output"), Stmt("Unlock", ""),
              Stmt("FailNow", "")>>
      [] op = "Skip" ->
            <<Stmt("Lock", ""), Stmt("format", ""), Stmt("write", "output"), Stmt("Unlock", ""),
              Stmt("SkipNow", "")>>
      [] op = "Helper" -> <<Stmt("Lock", ""), Stmt("write", "helpers"), Stmt("Unlock", "")>>
      [] op = "Cleanup" -> <<Stmt("Lock", ""), Stmt("write", "cleanups"), Stmt("Unlock", "")>>
      [] op = "Setenv" -> <<Stmt("Lock", ""), Stmt("write", "env"), Stmt("Unlock", "")>>
      [] op = "TempDir" ->
            <<Stmt("mkdir", ""), Stmt("Lock", ""), Stmt("write", "tempdirs"), Stmt("Unlock", "")>>
      [] op = "Run" -> RunProgram
      [] op = "Output" -> <<Stmt("RLock", ""), Stmt("read", "output"), Stmt("RUnlock", "")>>
      [] op = "HelperNames" -> <<Stmt("RLock", ""), Stmt("read", "helpers"), Stmt("RUnlock", "")>>
      [] op = "CleanupFuncs" -> <<Stmt("RLock", ""), Stmt("read", "cleanups"), Stmt("RUnlock", "")>>
      [] op = "CleanupNames" -> <<Stmt("read", "cleanups")>>
      [] op = "Subtests" -> NilChecked("subtests")
      [] op = "TempDirs" -> NilChecked("tempdirs")
      [] op = "Getenv" -> NilChecked("env")

Logging == {"Log", "Fatal", "Skip"}
Mutators == Logging \cup {"Helper", "Cleanup", "Setenv", "TempDir", "Run"}
Readers ==
    {"Output", "HelperNames", "CleanupFuncs", "CleanupNames", "Subtests", "TempDirs", "Getenv"}
OperandKinds == {"value", "stringer"}

\* A goroutine that is about to call method op on t.
Goroutine(op, t, arg, parent) ==
    [frames |-> <<[t |-> t, op |-> op, at |-> 1]>>, pc |-> "run", arg |-> arg,
     parent |-> parent, name |-> <<>>, dir |-> <<>>, sub |-> 0, child |-> 0]

\* The calls a goroutine can be about to make: one of the given methods,
\* the logging ones with either kind of operand.
Calls(ops, t, parent) ==
    {Goroutine(op, t, arg, parent) : op \in ops, arg \in {"value"}}
        \cup {Goroutine(op, t, "stringer", parent) : op \in ops \cap Logging}

\* The inspectors the other goroutines call: one that reads under the read
\* lock, one that reads without it, one that checks for nil first.
Inspecting == {"Output", "CleanupNames", "Subtests"}

\* The test's goroutine calls any method on the root; the other goroutines
\* inspect the root at the same time.
MuxInit ==
    /\ \E now \in StartTimes :
        \/ \E options \in RootOptions :
                /\ T = <<NewMuxT(FullRootName, options, now)>>
                /\ g = <<NewHist(0, <<>>)>>
        \/ \E options \in ConfiguredOptions :
                /\ T = <<NewMuxT(FullRootName, options, now), NewMuxT(ReporterName, <<>>, now)>>
                /\ g = <<NewHist(0, <<>>), NewHist(0, <<>>)>>
    /\ th \in [1..MaxRacers -> Calls(Mutators \cup Readers, 1, 0)]
    /\ \A q \in 2..MaxRacers : th[q].frames[1].op \in Inspecting

\* The innermost call of goroutine q.
Top(q) == th[q].frames[Len(th[q].frames)]

\* Goroutine q is running and its next statement is a `do`.
AtStmt(q, do) ==
    /\ q \in DOMAIN th
    /\ th[q].pc = "run"
    /\ Program(Top(q).op)[Top(q).at].do = do

\* The field the next statement of goroutine q reads or writes.
Field(q) == Program(Top(q).op)[Top(q).at].f

\* Goroutine q has executed its statement: it is at the next one, or the
\* call returns, into the call that made it or, for the outermost call, for
\* good.
Stepped(ths, q) ==
    LET fr == ths[q].frames
        top == fr[Len(fr)]
    IN  IF top.at < Len(Program(top.op)) THEN [ths EXCEPT ![q].frames[Len(fr)].at = @ + 1]
        ELSE IF Len(fr) = 1 THEN [ths EXCEPT ![q].frames = <<>>, ![q].pc = "done"]
        ELSE [ths EXCEPT ![q].frames = SubSeq(fr, 1, Len(fr) - 1)]

\* Goroutine q calls method op on s with an operand of kind arg: the call
\* it is in resumes after the statement that makes the call.
Calling(ths, q, s, op, arg) ==
    LET fr == ths[q].frames
    IN  [ths EXCEPT ![q].frames = Append([fr EXCEPT ![Len(fr)].at = @ + 1],
                                         [t |-> s, op |-> op, at |-> 1]),
                    ![q].arg = arg]

\* The operands of a logging call: the error internalError reports, or one
\* string.
OperandsOf(arg) == IF arg = "error" THEN {InternalErr} ELSE LogArgs

\* t.mux.Lock(): blocks while any goroutine holds the lock.
Lock(q) ==
    /\ AtStmt(q, "Lock")
    /\ T[Top(q).t].mux = FreeMux
    /\ T' = [T EXCEPT ![Top(q).t].mux.w = q]
    /\ th' = Stepped(th, q)
    /\ UNCHANGED g

\* t.mux.Unlock()
Unlock(q) ==
    /\ AtStmt(q, "Unlock")
    /\ T' = [T EXCEPT ![Top(q).t].mux.w = 0]
    /\ th' = Stepped(th, q)
    /\ UNCHANGED g

\* t.mux.RLock(): blocks while a goroutine holds the write lock.
RLock(q) ==
    /\ AtStmt(q, "RLock")
    /\ T[Top(q).t].mux.w = 0
    /\ T' = [T EXCEPT ![Top(q).t].mux.r = @ \cup {q}]
    /\ th' = Stepped(th, q)
    /\ UNCHANGED g

\* t.mux.RUnlock()
RUnlock(q) ==
    /\ AtStmt(q, "RUnlock")
    /\ T' = [T EXCEPT ![Top(q).t].mux.r = @ \ {q}]
    /\ th' = Stepped(th, q)
    /\ UNCHANGED g

\* The statement that appends to (or sets a key of) the field, inside the
\* locked section.
Write(q) ==
    /\ AtStmt(q, "write")
    /\ LET d == Top(q).t
           f == Field(q)
           subtest == [NewMuxT(fullname(T[d], th[q].name), <<>>, 1) EXCEPT
                           !.abort = T[d].abort,
                           !.baseTempdir = T[d].baseTempdir,
                           !.testingT = T[d].testingT,
                           !.deadline = T[d].deadline,
                           !.timeout = T[d].timeout]
       IN  /\ \E args \in OperandsOf(th[q].arg) :
                T' = CASE f = "output" -> Log(Ctx(T), d, args).T
                       [] f = "helpers" -> Helper(Ctx(T), d, <<"f">>).T
                       [] f = "cleanups" -> Cleanup(Ctx(T), d, "c1").T
                       [] f = "env" -> [Setenv(Ctx(T), d, "K", "v").T EXCEPT ![d].envNil = FALSE]
                       [] f = "tempdirs" ->
                            [T EXCEPT ![d].tempdirs = Append(@, th[q].dir),
                                      ![d].tempdirsNil = FALSE]
                       [] f = "subtests" ->
                            Append([T EXCEPT ![d].subtests = Append(@, Len(T) + 1),
                                             ![d].subtestsNil = FALSE,
                                             ![d].subtestNames = @ \cup {th[q].name}],
                                   subtest)
           /\ th' = Stepped([th EXCEPT ![q].sub = IF f = "subtests" THEN Len(T) + 1 ELSE @], q)
           /\ g' = CASE f = "subtests" -> Append(g, NewHist(d, RaceName))
                     [] f = "tempdirs" -> [g EXCEPT ![d].dirs = Append(@, th[q].dir)]
                     [] OTHER -> g

\* The statement that reads the field (return t.output, the loop over
\* t.cleanups).
Read(q) ==
    /\ AtStmt(q, "read")
    /\ th' = Stepped(th, q)
    /\ UNCHANGED <<T, g>>

\* Whether the field of d is nil.
IsNil(d, f) ==
    CASE f = "subtests" -> T[d].subtestsNil
      [] f = "tempdirs" -> T[d].tempdirsNil
      [] f = "env" -> T[d].envNil

\* if t.subtests == nil { ... }: the block that follows is skipped when the
\* field is not nil.
IfNil(q) ==
    /\ AtStmt(q, "ifnil")
    /\ th' = IF IsNil(Top(q).t, Field(q)) THEN Stepped(th, q)
             ELSE [th EXCEPT ![q].frames[Len(th[q].frames)].at = @ + 4]
    /\ UNCHANGED <<T, g>>

\* t.subtests = []*T{} (t.tempdirs = []string{}, t.env = map[string]string{}).
Zero(q) ==
    /\ AtStmt(q, "zero")
    /\ LET d == Top(q).t
       IN  T' = CASE Field(q) = "subtests" ->
                        [T EXCEPT ![d].subtests = <<>>, ![d].subtestsNil = FALSE]
                  [] Field(q) = "tempdirs" ->
                        [T EXCEPT ![d].tempdirs = <<>>, ![d].tempdirsNil = FALSE]
                  [] Field(q) = "env" -> [T EXCEPT ![d].env = <<>>, ![d].envNil = FALSE]
    /\ th' = Stepped(th, q)
    /\ UNCHANGED g

\* fmt.Sprintln(args...), inside Log's locked section: a plain operand is
\* rendered; an operand with a String method has it called, and the method
\* calls s.Log("m").
Format(q, s) ==
    /\ AtStmt(q, "format")
    /\ s \in DOMAIN T
    /\ th' = IF th[q].arg = "stringer" THEN Calling(th, q, s, "Log", "value")
             ELSE Stepped(th, q)
    /\ UNCHANGED <<T, g>>

\* TempDir up to the lock: the directory is created (ok) and the call goes
\* on, or internalError panics or calls Fatal on the reporter.
Mkdir(q, ok) ==
    /\ AtStmt(q, "mkdir")
    /\ LET d == Top(q).t
           r == MkdirTemp(T, T[d].baseTempdir, ok)
       IN  th' = IF ~r.err THEN Stepped([th EXCEPT ![q].dir = r.dir], q)
                 ELSE IF T[d].testingT = NilTestingT
                      THEN [th EXCEPT ![q].pc = "panic", ![q].frames = <<>>]
                      ELSE Calling([th EXCEPT ![q].dir = r.dir], q, T[d].testingT,
                                   "Fatal", "error")
    /\ UNCHANGED <<T, g>>

\* Run: name = t.newSubTestName(name), before the lock.
NewName(q) ==
    /\ AtStmt(q, "name")
    /\ th' = Stepped([th EXCEPT ![q].name = newSubTestName(T[Top(q).t], RaceName)], q)
    /\ UNCHANGED <<T, g>>

\* Run: Go(func() { f(subtest) }) up to wg.Wait(); the body f calls one
\* method other than Run, on the sub-test or on its parent.
GoBody(q, s, op, arg) ==
    /\ AtStmt(q, "Go")
    /\ s \in {th[q].sub, Top(q).t}
    /\ Goroutine(op, s, arg, q) \in Calls((Mutators \cup Readers) \ {"Run"}, s, q)
    /\ th' = Append([Stepped(th, q) EXCEPT ![q].pc = "wait", ![q].child = Len(th) + 1],
                    Goroutine(op, s, arg, q))
    /\ UNCHANGED <<T, g>>

\* Goroutine q has ended: returned, called runtime.Goexit() or panicked.
Ended(q) == th[q].pc \in {"done", "goexit", "panic"}

\* Run: wg.Wait() returns once the body's goroutine has ended.
GoWait(q) ==
    /\ q \in DOMAIN th
    /\ th[q].pc = "wait"
    /\ Ended(th[q].child)
    /\ th' = [th EXCEPT ![q].pc = "run"]
    /\ UNCHANGED <<T, g>>

\* Run: if subtest.Failed() { t.Fail() }; return !subtest.Failed()
RunEnd(q) ==
    /\ AtStmt(q, "join")
    /\ T' = RunPropagate(Ctx(T), Top(q).t, th[q].sub).T
    /\ th' = Stepped(th, q)
    /\ g' = [g EXCEPT ![th[q].sub].ret = IF RunResult(T, th[q].sub) THEN "true" ELSE "false"]

\* t.FailNow() or t.SkipNow() at the end of Fatal or Skip: with abort set
\* the goroutine ends, whatever calls it is in.
Terminate(q) ==
    /\ \/ AtStmt(q, "FailNow") /\ T' = FailNow(Ctx(T), Top(q).t).T
       \/ AtStmt(q, "SkipNow") /\ T' = SkipNow(Ctx(T), Top(q).t).T
    /\ th' = IF T[Top(q).t].abort THEN [th EXCEPT ![q].pc = "goexit", ![q].frames = <<>>]
             ELSE Stepped(th, q)
    /\ UNCHANGED g

\* The goroutines there can be: those of the start and the body of the
\* one Run call the test's goroutine can make.
Goroutines == 1..(MaxRacers + 1)

MuxNext ==
    \/ \E q \in Goroutines : Lock(q)
    \/ \E q \in Goroutines : Unlock(q)
    \/ \E q \in Goroutines : RLock(q)
    \/ \E q \in Goroutines : RUnlock(q)
    \/ \E q \in Goroutines : Write(q)
    \/ \E q \in Goroutines : Read(q)
    \/ \E q \in Goroutines : IfNil(q)
    \/ \E q \in Goroutines : Zero(q)
    \/ \E q \in Goroutines, s \in Doubles : Format(q, s)
    \/ \E q \in Goroutines, ok \in BOOLEAN : Mkdir(q, ok)
    \/ \E q \in Goroutines : NewName(q)
    \/ \E q \in Goroutines, s \in Doubles, op \in Mutators \cup Readers, arg \in OperandKinds :
            GoBody(q, s, op, arg)
    \/ \E q \in Goroutines : GoWait(q)
    \/ \E q \in Goroutines : RunEnd(q)
    \/ \E q \in Goroutines : Terminate(q)

MuxSpec == MuxInit /\ [][MuxNext]_vars

\* Go's scheduler resumes a goroutine blocked in wg.Wait() once the counter
\* is zero: the two returns of wg.Wait() are weakly fair.
FairSpec ==
    Spec /\ WF_vars(\E p \in Threads : GoReturn(p)) /\ WF_vars(\E p \in Threads : RunReturn(p))

\* ------------------------------------------------------------------ claims
Exited(q) == th[q].pc \in {"done", "goexit"}

\* C1: on a *T without sub-tests FailedCount() is the number of Fail, Error,
\* Errorf, FailNow, Fatal and Fatalf calls executed on it, and Failed() is
\* true exactly when that count is positive.
C1_FailedCountIsCalls ==
    \A d \in DOMAIN T :
        Subtests(T, d) = <<>> =>
            /\ FailedCount(T, d) = g[d].calls
            /\ Failed(T, d) <=> (g[d].calls > 0)

\* A *T without sub-tests on which three failure calls were executed, the
\* last of them a terminating one that ended its goroutine.
C1_Witness ==
    \E d \in DOMAIN T, p \in DOMAIN th :
        /\ Subtests(T, d) = <<>>
        /\ g[d].calls = 3
        /\ th[p].termT = d
        /\ th[p].pc = "goexit"

\* C2: with abort enabled, a goroutine that called FailNow, Fatal, Fatalf,
\* SkipNow, Skip or Skipf executes no statement after that call (it is
\* ended by Goexit), and Aborted() is true on the receiver.
C2_NothingAfterAbort ==
    \A p \in DOMAIN th :
        th[p].term > 0 =>
            /\ th[p].n = th[p].term
            /\ th[p].pc = "goexit"
            /\ Aborted(T, th[p].termT)

\* A goroutine ended by its terminating call, while the goroutine that
\* started it has gone on and executed a later statement.
C2_Witness ==
    \E p \in DOMAIN th :
        /\ th[p].term > 0
        /\ th[p].parent # 0
        /\ th[th[p].parent].pc = "run"
        /\ th[th[p].parent].n >= 2

\* C3: with abort disabled, a goroutine that called FailNow, Fatal, Fatalf,
\* SkipNow, Skip or Skipf is not ended by it, and Aborted() is true on the
\* receiver.
C3_NoAbortContinues ==
    \A p \in DOMAIN th :
        th[p].cont > 0 =>
            /\ th[p].pc # "goexit"
            /\ Aborted(T, th[p].contT)

\* A sub-test body (abort disabled by inheritance) that executed a
\* statement after its terminating call.
C3_Witness ==
    \E p \in DOMAIN th :
        /\ th[p].cont > 0
        /\ th[p].contT > 1
        /\ th[p].n > th[p].cont
        /\ Aborted(T, th[p].contT)

\* C4: a goroutine is ended by Goexit only through a terminating call it
\* made itself: a terminating call in a function run by Go or Run never
\* ends the goroutine that called Go or Run, nor any other.
C4_OnlyCallerTerminated ==
    \A p \in DOMAIN th : th[p].pc = "goexit" => th[p].term > 0

\* A body ended by its own terminating call whose caller went on to return
\* normally.
C4_Witness ==
    \E q \in DOMAIN th :
        /\ th[q].pc = "goexit"
        /\ th[q].parent # 0
        /\ th[th[q].parent].pc = "done"

\* C5: while the goroutine started by Go has not exited, the caller is
\* blocked in that Go call; so whenever the caller is past the call the
\* goroutine has returned or was ended by Goexit.
C5_GoJoins ==
    \A q \in DOMAIN th :
        (th[q].parent # 0 /\ ~Exited(q)) =>
            /\ th[th[q].parent].pc = "wait"
            /\ th[th[q].parent].child = q

\* The caller is past a Go call whose function changed the *T before exiting.
C5_Witness ==
    \E q \in DOMAIN th :
        /\ th[q].parent # 0
        /\ Exited(q)
        /\ th[q].n > 0
        /\ th[th[q].parent].pc = "run"
        /\ th[th[q].parent].child = 0

\* C6: whenever the function given to Go or the body given to Run has ended,
\* by return or by Goexit, the caller blocked on it is eventually released.
C6_CallerReleased ==
    \A q \in Threads :
        (q \in DOMAIN th /\ th[q].parent # 0 /\ Exited(q))
            ~> (q \in DOMAIN th /\ th[q].parent # 0 /\ th[th[q].parent].child # q)

\* A nested Run released after its body aborted: the released caller is
\* itself a body.
C6_Witness ==
    \E q \in DOMAIN th :
        /\ th[q].pc = "goexit"
        /\ th[q].parent # 0
        /\ th[th[q].parent].parent # 0
        /\ th[th[q].parent].child # q
        /\ g[th[q].t].ret # "none"

RECURSIVE AncestorsFailed(_)
\* Every ancestor of s is failed.
AncestorsFailed(s) ==
    g[s].parent = 0 \/ (Failed(T, g[s].parent) /\ AncestorsFailed(g[s].parent))

RECURSIVE Outermost(_)
\* The ancestor of sub-test s that is a child of the root.
Outermost(s) == IF g[g[s].parent].parent = 0 THEN s ELSE Outermost(g[s].parent)

\* C7: once the Run that created a child has returned and the child has
\* FailedCount() > 0, the parent is failed; and once the outermost Run has
\* returned every ancestor of a failed sub-test is failed.
C7_FailurePropagates ==
    \A s \in DOMAIN T :
        (g[s].parent # 0 /\ FailedCount(T, s) > 0) =>
            /\ g[s].ret # "none" => Failed(T, g[s].parent)
            /\ g[Outermost(s)].ret # "none" => AncestorsFailed(s)

\* A failed sub-test two levels down, after the outermost Run returned.
C7_Witness ==
    \E s \in DOMAIN T :
        /\ g[s].parent # 0
        /\ g[g[s].parent].parent # 0
        /\ FailedCount(T, s) > 0
        /\ g[Outermost(s)].ret # "none"

\* C8: FailedCount() of a *T is the number of failure calls made on it plus
\* the number of its Run calls whose child ended failed: a Run adds 1 for
\* a failed child, whatever the child's count, and 0 otherwise.
C8_PropagationAddsOne ==
    \A d \in DOMAIN T : FailedCount(T, d) = g[d].calls + g[d].props

\* A child that failed twice behind a parent with a count of one.
C8_Witness ==
    \E s \in DOMAIN T :
        /\ g[s].parent # 0
        /\ g[s].ret = "false"
        /\ FailedCount(T, s) = 2
        /\ FailedCount(T, g[s].parent) = 1

\* C9: Run returns true exactly when the child it created is not failed.
C9_RunResult ==
    \A s \in DOMAIN T :
        g[s].ret # "none" => (g[s].ret = "true" <=> ~Failed(T, s))

\* Run returned true for a child that was skipped and aborted, not failed.
C9_Witness ==
    \E s \in DOMAIN T :
        /\ g[s].ret = "true"
        /\ Skipped(T, s)
        /\ Aborted(T, s)

\* x is the requested name with spaces replaced by underscores, or that
\* followed by "#" and a two-digit counter.
Disambiguated(x, requested) ==
    LET n == ReplaceAll(requested, " ", "_")
    IN  x = n \/ \E i \in 1..MaxDoubles : x = n \o <<"#">> \o Sprintf02d(i)

\* C10: the name of a child created by Run is the parent's name, "/" and
\* the disambiguated requested name, or the disambiguated name alone when
\* the parent's name is empty, at every depth.
C10_ChildName ==
    \A s \in DOMAIN T :
        g[s].parent # 0 =>
            \E x \in T[g[s].parent].subtestNames :
                /\ Disambiguated(x, g[s].req)
                /\ Name(T, s) = IF Name(T, g[s].parent) = <<>> THEN x
                                ELSE Name(T, g[s].parent) \o <<"/">> \o x

\* A sub-test two levels below a root with a non-empty name.
C10_Witness ==
    \E s \in DOMAIN T :
        /\ g[s].parent # 0
        /\ g[g[s].parent].parent # 0
        /\ Name(T, s) = <<"P", "_", "Q", "/", "a", "_", "b", "/", "a", "_", "b">>

\* The part of a child's name after its parent's name and "/".
Short(d, s) ==
    IF Name(T, d) = <<>> THEN Name(T, s)
    ELSE SubSeq(Name(T, s), Len(Name(T, d)) + 2, Len(Name(T, s)))

\* The short names of the children of d created before its j-th child.
Earlier(d, j) == {Short(d, T[d].subtests[i]) : i \in 1..(j - 1)}

\* i written with exactly two decimal digits.
TwoDigits(i) == <<Digits[(i \div 10) + 1], Digits[(i % 10) + 1]>>

\* i in decimal, padded with a zero to two digits when below 10.
AtLeastTwoDigits(i) == IF i < 10 THEN <<"0">> \o Itoa(i) ELSE Itoa(i)

\* The j-th child of d took its normalized requested name when that was
\* unused, and otherwise that name, "#" and Counter(i) for the smallest i of
\* Range that gives an unused name.
NamedBy(d, j, Range, Counter(_)) ==
    LET s == T[d].subtests[j]
        n == ReplaceAll(g[s].req, " ", "_")
        x == Short(d, s)
        used == Earlier(d, j)
    IN  IF n \notin used THEN x = n
        ELSE \E i \in Range :
                /\ x = n \o <<"#">> \o Counter(i)
                /\ x \notin used
                /\ \A k \in 1..(i - 1) : n \o <<"#">> \o Counter(k) \in used

\* The names of the children of d are pairwise distinct.
DistinctChildren(d) ==
    \A i, j \in 1..Len(T[d].subtests) :
        i # j => Name(T, T[d].subtests[i]) # Name(T, T[d].subtests[j])

\* C11, with a counter of exactly two digits: every child of a parent has its normalized requested name
\* when that was unused, otherwise that name, "#" and the smallest 1-based
\* counter of exactly two digits giving an unused name; the children's names
\* are pairwise distinct.
C11_TwoDigitCounter ==
    \A d \in DOMAIN T :
        /\ \A j \in 1..Len(T[d].subtests) : NamedBy(d, j, 1..99, TwoDigits)
        /\ DistinctChildren(d)

\* C11, with a padded counter: every child of a parent has its normalized
\* requested name when that was unused; otherwise the counter is the
\* smallest 1-based number giving an unused name, written in decimal and
\* zero-padded to at least two digits (three digits from the hundredth
\* collision on); the children's names are pairwise distinct.
C11_PaddedCounter ==
    \A d \in DOMAIN T :
        /\ \A j \in 1..Len(T[d].subtests) :
                NamedBy(d, j, 1..Len(T[d].subtests), AtLeastTwoDigits)
        /\ DistinctChildren(d)

\* The hundredth collision on one name, and a collision on a requested name
\* that already ends in "#01".
C11_Witness ==
    /\ \E j \in 1..Len(T[1].subtests) : Short(1, T[1].subtests[j]) = <<"a", "#", "1", "0", "0">>
    /\ \E j \in 1..Len(T[1].subtests) :
            /\ g[T[1].subtests[j]].req = <<"a", "#", "0", "1">>
            /\ Short(1, T[1].subtests[j]) = <<"a", "#", "0", "1", "#", "0", "1">>

\* What Run copies from the parent to the sub-test.
Config(t) ==
    [abort |-> t.abort, deadline |-> t.deadline, timeout |-> t.timeout,
     baseTempdir |-> t.baseTempdir, testingT |-> t.testingT]

\* C12: every *T created by Run has its parent's abort flag, deadline,
\* timeout flag, base temp directory and reporter, and so, at any depth,
\* those of its parent's parent.
C12_Inherited ==
    \A s \in DOMAIN T :
        g[s].parent # 0 =>
            /\ Config(T[s]) = Config(T[g[s].parent])
            /\ g[g[s].parent].parent # 0 =>
                    Config(T[s]) = Config(T[g[g[s].parent].parent])

\* A sub-test two levels below a root with abort disabled, whose body made
\* a terminating call and was not ended by it.
C12_Witness ==
    \E p \in DOMAIN th :
        /\ th[p].cont > 0
        /\ th[p].pc = "run"
        /\ g[th[p].contT].parent # 0
        /\ g[g[th[p].contT].parent].parent # 0
        /\ ~T[th[p].contT].abort

\* Goroutine p calls Error or Errorf on d in this step.
ErrorCall(p, d) ==
    \/ \E args \in LogArgs : CallError(p, d, args)
    \/ \E f \in LogfCalls : CallErrorf(p, d, f)

\* C13: a call of Error or Errorf adds exactly one entry to the output and
\* exactly one to the failure count, leaves skipped and aborted as they
\* were, and the calling goroutine goes on, whatever the abort flag.
C13_ErrorEffect ==
    [][\A p \in DOMAIN th, d \in DOMAIN T :
          ErrorCall(p, d) =>
              /\ Len(Output(T', d)) = Len(Output(T, d)) + 1
              /\ FailedCount(T', d) = FailedCount(T, d) + 1
              /\ Skipped(T', d) = Skipped(T, d)
              /\ Aborted(T', d) = Aborted(T, d)
              /\ th'[p].pc = "run"]_vars

\* An aborting *T that took three calls, each adding an output entry and a
\* failure, and is neither aborted nor skipped; its goroutine is running.
C13_Witness ==
    \E p \in DOMAIN th :
        LET d == th[p].t
        IN  /\ T[d].abort
            /\ th[p].pc = "run"
            /\ th[p].n = 3
            /\ Len(Output(T, d)) = 3
            /\ FailedCount(T, d) = 3
            /\ ~Aborted(T, d)
            /\ ~Skipped(T, d)

\* C14: a call of Fatal or Fatalf adds exactly one entry, the rendered
\* message, to the output, adds exactly one to the failure count and leaves
\* aborted true, whether or not it ends the calling goroutine; with abort
\* enabled it does end it.
C14_FatalRecords ==
    [][\A p \in DOMAIN th, d \in DOMAIN T :
          ((\E args \in LogArgs : CallFatal(p, d, args))
            \/ (\E f \in LogfCalls : CallFatalf(p, d, f))) =>
              /\ Output(T', d) = Append(Output(T, d), <<"m", "\n">>)
              /\ FailedCount(T', d) = FailedCount(T, d) + 1
              /\ Aborted(T', d)
              /\ T[d].abort => th'[p].pc = "goexit"]_vars

\* A goroutine ended by the only call it made: the call left the message,
\* one failure and aborted on its *T.
C14_Witness ==
    \E p \in DOMAIN th :
        LET d == th[p].t
        IN  /\ th[p].pc = "goexit"
            /\ th[p].n = 1
            /\ th[p].termT = d
            /\ Output(T, d) = <<<<"m", "\n">>>>
            /\ FailedCount(T, d) = 1
            /\ Aborted(T, d)

\* Goroutine p calls SkipNow on d in this step.
SkipNowCall(p, d) == CallSkipNow(p, d)

\* Goroutine p calls Skip or Skipf on d in this step.
SkipCall(p, d) ==
    \/ \E args \in LogArgs : CallSkip(p, d, args)
    \/ \E f \in LogfCalls : CallSkipf(p, d, f)

\* Goroutine p makes a failure-reporting call on d in this step.
FailureCall(p, d) ==
    \/ CallFail(p, d)
    \/ CallFailNow(p, d)
    \/ ErrorCall(p, d)
    \/ \E args \in LogArgs : CallFatal(p, d, args)
    \/ \E f \in LogfCalls : CallFatalf(p, d, f)

\* C15: SkipNow, Skip and Skipf set skipped and aborted and leave the
\* failure count as it was, Skip and Skipf adding exactly one output entry
\* and SkipNow none; skipped changes only in such a call, so no
\* failure-reporting call changes it; a skipped *T on which no failure call
\* was made and no Run found a failed child is not failed.
C15_SkipFailIndependent ==
    /\ [][\A p \in DOMAIN th, d \in DOMAIN T :
            /\ (SkipNowCall(p, d) \/ SkipCall(p, d)) =>
                    /\ Skipped(T', d)
                    /\ Aborted(T', d)
                    /\ FailedCount(T', d) = FailedCount(T, d)
            /\ SkipNowCall(p, d) => Output(T', d) = Output(T, d)
            /\ SkipCall(p, d) => Len(Output(T', d)) = Len(Output(T, d)) + 1
            /\ FailureCall(p, d) => Skipped(T', d) = Skipped(T, d)]_vars
    /\ [][\A d \in DOMAIN T :
            Skipped(T', d) # Skipped(T, d) =>
                \E p \in DOMAIN th : SkipNowCall(p, d) \/ SkipCall(p, d)]_vars
    /\ [](\A d \in DOMAIN T :
            (Skipped(T, d) /\ g[d].calls = 0 /\ g[d].props = 0) => ~Failed(T, d))

\* A *T that is both failed and skipped, skipped after it had failed.
C15_Witness ==
    \E d \in DOMAIN T :
        /\ Skipped(T, d)
        /\ Failed(T, d)
        /\ g[d].calls = 1
        /\ Len(Output(T, d)) = 2

\* C16: in every step the failure count of every *T does not decrease and
\* skipped, aborted and parallel, once true, stay true; a call of Parallel
\* leaves parallel true, also on a *T that is already parallel.
C16_Monotonic ==
    /\ [][\A d \in DOMAIN T :
            /\ FailedCount(T', d) >= FailedCount(T, d)
            /\ Skipped(T, d) => Skipped(T', d)
            /\ Aborted(T, d) => Aborted(T', d)
            /\ Paralleled(T, d) => Paralleled(T', d)]_vars
    /\ [][\A p \in DOMAIN th, d \in DOMAIN T :
            CallParallel(p, d) => Paralleled(T', d)]_vars

\* A failed *T on which Parallel was called twice.
C16_Witness ==
    \E d \in DOMAIN T :
        /\ g[d].par = 2
        /\ Paralleled(T, d)
        /\ Failed(T, d)

\* C17: CleanupFuncs() lists the callbacks given to Cleanup so far, in
\* registration order, and no call on the *T has invoked a callback.
C17_CleanupsRecordedNotRun ==
    \A d \in DOMAIN T :
        /\ CleanupFuncs(T, d) = g[d].cleans
        /\ g[d].ran = 0

\* A sub-test that registered two callbacks, after its Run returned.
C17_Witness ==
    \E s \in DOMAIN T :
        /\ g[s].parent # 0
        /\ g[s].ret # "none"
        /\ CleanupFuncs(T, s) = <<"c2", "c1">>
        /\ g[s].ran = 0

\* C18: HelperNames() has one entry per Helper call, in call order, each
\* the function that called Helper directly.
C18_HelperRecordsCaller ==
    \A d \in DOMAIN T : HelperNames(T, d) = g[d].hcalls

\* f, called by g, called Helper twice and then g called it itself.
C18_Witness ==
    \E d \in DOMAIN T :
        /\ HelperNames(T, d) = <<"f", "f", "g">>
        /\ g[d].hcalls = <<"f", "f", "g">>

\* C19: a TempDir call whose directory creation fails reports exactly one
\* Fatal to the reporter when one is configured (for a *T as reporter: one
\* more failure, aborted, one more output line) and panics otherwise; the
\* receiver's failure count, skipped, aborted and output are unchanged; a
\* reporter changes in no other step.
C19_TempDirFailure ==
    /\ [][\A p \in DOMAIN th, d \in DOMAIN T :
            CallTempDir(p, d, FALSE) =>
                /\ FailedCount(T', d) = FailedCount(T, d)
                /\ Skipped(T', d) = Skipped(T, d)
                /\ Aborted(T', d) = Aborted(T, d)
                /\ Output(T', d) = Output(T, d)
                /\ IF T[d].testingT # NilTestingT
                   THEN LET r == T[d].testingT
                        IN  /\ FailedCount(T', r) = FailedCount(T, r) + 1
                            /\ Aborted(T', r)
                            /\ Output(T', r) = Append(Output(T, r), InternalErr[1].text \o <<"\n">>)
                   ELSE th'[p].pc = "panic"]_vars
    /\ [][\A r \in DOMAIN T :
            ((\E d \in DOMAIN T : T[d].testingT = r) /\ T'[r] # T[r]) =>
                \E p \in DOMAIN th, d \in DOMAIN T :
                    T[d].testingT = r /\ CallTempDir(p, d, FALSE)]_vars

\* A reporter that took one Fatal from a failed TempDir call of a sub-test
\* that itself recorded nothing.
C19_Witness ==
    \E d \in DOMAIN T :
        /\ g[d].parent # 0
        /\ T[d].testingT = Reporter
        /\ FailedCount(T, Reporter) = 1
        /\ Aborted(T, Reporter)
        /\ Len(Output(T, Reporter)) = 1
        /\ FailedCount(T, d) = 0
        /\ ~Aborted(T, d)
        /\ Output(T, d) = <<>>

\* C20: TempDirs() is the sequence of the paths returned by the TempDir
\* calls that created a directory, in call order; a call whose directory
\* creation failed adds no entry.
C20_TempDirsAreCreated ==
    \A d \in DOMAIN T : TempDirs(T, d) = g[d].dirs

\* The position in the option list o of the last option of one of the
\* kinds, 0 when there is none.
LastOf(o, kinds) ==
    LET at == {i \in 1..Len(o) : o[i].opt \in kinds}
    IN  IF at = {} THEN 0 ELSE CHOOSE i \in at : \A j \in at : j <= i

\* The position of the last WithBaseTempdir with a non-empty directory.
LastDir(o) ==
    LET at == {i \in 1..Len(o) : o[i].opt = "WithBaseTempdir" /\ o[i].dir # <<>>}
    IN  IF at = {} THEN 0 ELSE CHOOSE i \in at : \A j \in at : j <= i

\* C21: a *T made by NewT has abort enabled unless WithNoAbort was given;
\* the directory of the last WithBaseTempdir with a non-empty directory,
\* else the default one; the reporter of the last WithTestingT, else none;
\* the timeout and deadline of the last WithTimeout or WithDeadline, else a
\* timeout with the deadline ten minutes from now; and failure count 0, not
\* skipped, aborted or parallel, and nothing recorded.
C21_NewTFoldsOptions ==
    \A d \in DOMAIN T :
        LET o == g[d].opts
            t == T[d]
            kd == LastOf(o, {"WithTimeout", "WithDeadline"})
        IN  (g[d].now # 0) =>
            /\ t.abort = (LastOf(o, {"WithNoAbort"}) = 0)
            /\ t.baseTempdir = IF LastDir(o) = 0 THEN OsTempDir ELSE o[LastDir(o)].dir
            /\ t.testingT = IF LastOf(o, {"WithTestingT"}) = 0 THEN NilTestingT
                            ELSE o[LastOf(o, {"WithTestingT"})].testingT
            /\ IF kd = 0 THEN t.timeout /\ t.deadline = g[d].now + DefaultTimeout
               ELSE IF o[kd].opt = "WithTimeout"
                    THEN IF o[kd].d > 0 THEN t.timeout /\ t.deadline = g[d].now + o[kd].d
                         ELSE ~t.timeout /\ t.deadline = ZeroTime
                    ELSE IF o[kd].d # ZeroTime THEN t.timeout /\ t.deadline = o[kd].d
                         ELSE ~t.timeout /\ t.deadline = ZeroTime
            /\ t.failed = 0 /\ ~t.skipped /\ ~t.aborted /\ ~t.parallel
            /\ t.output = <<>> /\ t.helpers = <<>> /\ t.cleanups = <<>>
            /\ t.env = <<>> /\ t.subtests = <<>> /\ t.tempdirs = <<>>

\* A *T made with a directory, then the empty directory, then the zero
\* deadline.
C21_Witness ==
    /\ Len(T) = 1
    /\ g[1].opts = <<WithBaseTempdir(<<"b">>), WithBaseTempdir(<<>>), WithDeadline(ZeroTime)>>
    /\ T[1].baseTempdir = <<"b">>
    /\ ~T[1].timeout

\* C22: no step changes the name, abort flag, deadline, timeout flag, base
\* temp directory or reporter of an existing *T, so Name() and Deadline()
\* return the same values in every state.
C22_ConfigurationFixed ==
    [][\A d \in DOMAIN T :
          /\ Config(T'[d]) = Config(T[d])
          /\ Name(T', d) = Name(T, d)
          /\ Deadline(T', d) = Deadline(T, d)]_vars

\* A sub-test of the configured root that recorded an environment variable
\* and still has the root's configuration; the root has registered it.
C22_Witness ==
    \E s \in DOMAIN T :
        /\ g[s].parent = 1
        /\ Getenv(T, s) # <<>>
        /\ Subtests(T, 1) = <<s>>
        /\ Deadline(T, s) = <<ZeroTime, FALSE>>
        /\ T[s].baseTempdir = <<"b">>
        /\ T[s].testingT = Reporter

\* What a *T records by itself: everything but its sub-tests, the names
\* they use and the failure count.
Owned(t) ==
    [output |-> t.output, helpers |-> t.helpers, cleanups |-> t.cleanups,
     env |-> t.env, tempdirs |-> t.tempdirs, skipped |-> t.skipped,
     aborted |-> t.aborted, parallel |-> t.parallel]

\* Goroutine p executes a statement in this step.
Acts(p) == th'[p].n = th[p].n + 1

\* C23: a statement executed by the body of a sub-test leaves what the
\* sub-test's parent records by itself unchanged, and a Run call on a *T,
\* from its start to its return, changes only the sub-tests, the used names
\* and the failure count of that *T.
C23_NoSharedState ==
    /\ [][\A p \in DOMAIN th :
            (Acts(p) /\ g[th[p].t].parent # 0) =>
                Owned(T'[g[th[p].t].parent]) = Owned(T[g[th[p].t].parent])]_vars
    /\ [][\A p \in DOMAIN th, d \in DOMAIN T :
            ((\E requested \in RunNames, now \in Times : CallRun(p, d, requested, now))
              \/ (RunReturn(p) /\ th[p].recv = d)) =>
                /\ Owned(T'[d]) = Owned(T[d])
                /\ Name(T', d) = Name(T, d)
                /\ Config(T'[d]) = Config(T[d])]_vars

\* A sub-test that recorded a log line, aborted and failed, and whose Run
\* has returned: the parent has the failure and none of the rest.
C23_Witness ==
    \E s \in DOMAIN T :
        /\ g[s].parent # 0
        /\ g[s].ret = "false"
        /\ Output(T, s) # <<>>
        /\ Aborted(T, s)
        /\ Failed(T, g[s].parent)
        /\ Output(T, g[s].parent) = <<>>
        /\ ~Aborted(T, g[s].parent)

RECURSIVE Spaced(_)
\* The operands' texts, one space between every two of them.
Spaced(args) ==
    IF Len(args) = 0 THEN <<>>
    ELSE IF Len(args) = 1 THEN args[1].text
    ELSE Spaced(SubSeq(args, 1, Len(args) - 1)) \o <<" ">> \o args[Len(args)].text

\* C24: Log, Error, Fatal and Skip each append exactly one entry to the
\* output: the operands' texts joined by single spaces, with one newline
\* appended ("\n" for no operands), the same text for all four.
C24_LogText ==
    [][\A args \in ArgLists(MaxArgs) :
          (CallLog(1, 1, args) \/ CallError(1, 1, args) \/ CallFatal(1, 1, args)
            \/ CallSkip(1, 1, args)) =>
              Output(T', 1) = Append(Output(T, 1), Spaced(args) \o <<"\n">>)]_vars

\* The entry "a 4\n" after an earlier entry: a string and a number joined
\* by one space.
C24_Witness ==
    /\ Len(Output(T, 1)) = 2
    /\ Output(T, 1)[2] = <<"a", " ", "4", "\n">>

\* The text ends in a newline.
EndsInNewline(s) == Len(s) > 0 /\ s[Len(s)] = "\n"

\* C25: Logf, Errorf, Fatalf and Skipf each append exactly one entry to the
\* output: the formatted result itself when it ends in a newline, and the
\* formatted result with one newline appended otherwise.
C25_LogfText ==
    [][\A f \in FormatCalls :
          (CallLogf(1, 1, f) \/ CallErrorf(1, 1, f) \/ CallFatalf(1, 1, f)
            \/ CallSkipf(1, 1, f)) =>
              LET r == Sprintf(f.format, f.args)
              IN  Output(T', 1) =
                      Append(Output(T, 1), IF EndsInNewline(r) THEN r ELSE r \o <<"\n">>)]_vars

RECURSIVE ChildrenUpTo(_, _)
\* The *T created by the Run calls on d among the first k of the heap, in
\* the order of the calls.
ChildrenUpTo(d, k) ==
    IF k = 0 THEN <<>>
    ELSE IF g[k].parent = d THEN Append(ChildrenUpTo(d, k - 1), k)
    ELSE ChildrenUpTo(d, k - 1)

\* C26: in every state, so from before a body's first statement and ever
\* after, also when the body aborted, Subtests() of a *T lists the *T
\* created by the Run calls made on it, in the order of those calls.
C26_SubtestsRegistered ==
    \A d \in DOMAIN T : Subtests(T, d) = ChildrenUpTo(d, Len(T))

\* Two Run calls on the root, the first body aborted by its first
\* statement, the second body started and not yet ended.
C26_Witness ==
    \E q \in DOMAIN th :
        /\ Subtests(T, 1) = <<2, 3>>
        /\ Aborted(T, 2)
        /\ th[q].t = 3
        /\ th[q].pc = "run"

\* Goroutine q runs the body of a Run call: it was started for another *T
\* than the one its starter works on.
Body(q) == th[q].parent # 0 /\ th[q].t # th[th[q].parent].t

\* Goroutine q has been started and has not ended.
Live(q) == th[q].pc \in {"run", "wait"}

RECURSIVE Ancestor(_, _)
\* Goroutine a started q, or started a goroutine that is an ancestor of q.
Ancestor(a, q) ==
    th[q].parent # 0 /\ (th[q].parent = a \/ Ancestor(a, th[q].parent))

\* C27: of the bodies of the sub-tests of one parent at most one is live; a
\* body is started only after the bodies of the earlier sub-tests of its
\* parent have ended and their Run calls have returned, the failure
\* propagated; the live goroutines form one chain in which all but the last
\* are blocked in wg.Wait().
C27_BodiesDoNotOverlap ==
    /\ \A q1, q2 \in DOMAIN th :
            (q1 # q2 /\ Body(q1) /\ Body(q2) /\ Live(q1) /\ Live(q2)) =>
                g[th[q1].t].parent # g[th[q2].t].parent
    /\ \A q \in DOMAIN th :
            Body(q) =>
                \A s \in DOMAIN T :
                    (s < th[q].t /\ g[s].parent = g[th[q].t].parent) =>
                        /\ g[s].ret # "none"
                        /\ \A r \in DOMAIN th : th[r].t = s => ~Live(r)
                        /\ Failed(T, s) => Failed(T, g[s].parent)
    /\ \A q1, q2 \in DOMAIN th :
            (q1 # q2 /\ Live(q1) /\ Live(q2)) =>
                /\ Ancestor(q1, q2) \/ Ancestor(q2, q1)
                /\ Ancestor(q1, q2) => th[q1].pc = "wait"

\* The second body of the root is running after the first one failed and
\* ended: the root has the failure.
C27_Witness ==
    \E q \in DOMAIN th :
        /\ Subtests(T, 1) = <<2, 3>>
        /\ th[q].t = 3
        /\ Body(q)
        /\ th[q].pc = "run"
        /\ Failed(T, 2)
        /\ g[2].ret = "false"
        /\ Failed(T, 1)

\* C28: once the goroutines that called Fail at the same time have all
\* returned, the failure count is the number of their calls: no increment
\* is lost.
C28_NoLostFailure ==
    (\A q \in DOMAIN th : th[q].pc = "done") => FailedCount(T, 1) = g[1].calls

\* C29: Subtests() called while Run is executing never drops a sub-test:
\* in every state t.subtests holds every sub-test registered so far.
C29_SubtestsKept ==
    \A d \in DOMAIN T :
        \A s \in DOMAIN T :
            g[s].parent = d => \E i \in 1..Len(Subtests(T, d)) : Subtests(T, d)[i] = s

\* C30: TempDirs() called while TempDir() is executing never drops a path:
\* in every state t.tempdirs holds every path a completed TempDir() call
\* returned.
C30_TempDirsKept ==
    \A d \in DOMAIN T :
        \A i \in 1..Len(g[d].dirs) :
            \E j \in 1..Len(TempDirs(T, d)) : TempDirs(T, d)[j] = g[d].dirs[i]

\* The fields t.mux protects.
Protected == {"output", "helpers", "cleanups", "subtests", "tempdirs", "env"}

\* Goroutine p is about to read field f of d.
Reading(p, d, f) ==
    /\ th[p].pc = "run"
    /\ Top(p).t = d
    /\ Field(p) = f
    /\ AtStmt(p, "read") \/ AtStmt(p, "ifnil")

\* C31: every statement that writes one of the protected fields of a *T is
\* executed by a goroutine that holds the write lock of that *T, and every
\* statement of an inspector that reads one by a goroutine that holds its
\* read lock or its write lock; so no goroutine is about to read a field
\* when another one writes it.
C31_AccessesUnderLock ==
    [][\A q \in Goroutines :
          /\ ((Write(q) \/ Zero(q)) /\ Field(q) \in Protected) =>
                /\ T[Top(q).t].mux.w = q
                /\ \A p \in DOMAIN th : p # q => ~Reading(p, Top(q).t, Field(q))
          /\ ((Read(q) \/ IfNil(q)) /\ Field(q) \in Protected) =>
                (T[Top(q).t].mux.w = q \/ q \in T[Top(q).t].mux.r)]_vars

\* The call holds the write lock of its receiver: it has executed Lock and
\* not yet the Unlock that follows.
FrameHolds(fr) ==
    \E i \in 1..(fr.at - 1) :
        /\ Program(fr.op)[i].do = "Lock"
        /\ \A j \in (i + 1)..(fr.at - 1) : Program(fr.op)[j].do # "Unlock"

\* Goroutine q cannot execute its next statement: the lock it asks for is
\* held, or the body it waits for has not ended.
Blocked(q) ==
    \/ AtStmt(q, "Lock") /\ T[Top(q).t].mux # FreeMux
    \/ AtStmt(q, "RLock") /\ T[Top(q).t].mux.w # 0
    \/ th[q].pc = "wait" /\ ~Ended(th[q].child)

\* C32: no call holds the lock of its *T while code of the user runs (the
\* body of Run, the reporter, a method of an operand) or when its goroutine
\* ends; a lock that is held is held by a call in progress; and the
\* goroutines never all block.
C32_NoLockInUserCode ==
    /\ \A q \in DOMAIN th :
        /\ \A k \in 1..(Len(th[q].frames) - 1) : ~FrameHolds(th[q].frames[k])
        /\ th[q].pc = "wait" => ~FrameHolds(Top(q))
        /\ Ended(q) => \A d \in DOMAIN T : T[d].mux.w # q /\ q \notin T[d].mux.r
    /\ \A d \in DOMAIN T :
        T[d].mux.w # 0 =>
            \E k \in 1..Len(th[T[d].mux.w].frames) :
                th[T[d].mux.w].frames[k].t = d /\ FrameHolds(th[T[d].mux.w].frames[k])
    /\ (\E q \in DOMAIN th : ~Ended(q)) => \E q \in DOMAIN th : ~Ended(q) /\ ~Blocked(q)

\* C33: when goroutines call Run at the same time on one parent with the
\* same requested name, the sub-tests get distinct names and the parent's
\* set of used names holds the name of each of them.
C33_DistinctUnderRace ==
    \A s1, s2 \in DOMAIN T :
        (g[s1].parent = 1 /\ g[s2].parent = 1) =>
            /\ s1 # s2 => Name(T, s1) # Name(T, s2)
            /\ Short(1, s1) \in T[1].subtestNames

\* C34: in every state, a *T that is aborted is failed or skipped: only
\* FailNow and SkipNow, and the calls built on them, set the abort flag.
C34_AbortedIsFailedOrSkipped ==
    \A d \in DOMAIN T : Aborted(T, d) => (FailedCount(T, d) > 0 \/ Skipped(T, d))

\* One *T aborted by a failure and not skipped, another aborted by a skip
\* and not failed.
C34_Witness ==
    \E d1, d2 \in DOMAIN T :
        /\ Aborted(T, d1) /\ Failed(T, d1) /\ ~Skipped(T, d1)
        /\ Aborted(T, d2) /\ Skipped(T, d2) /\ ~Failed(T, d2)

RECURSIVE RootOf(_)
\* The *T made by NewT that d descends from.
RootOf(d) == IF g[d].parent = 0 THEN d ELSE RootOf(g[d].parent)

\* C35: for a *T made by NewT with any options and for its descendants made
\* by Run, Deadline() reports a timeout exactly when the deadline is not the
\* zero time: (zero time, false) when the last WithTimeout or WithDeadline
\* had a duration of zero or less or the zero time, (that deadline, true)
\* when it had a positive duration or another time, and (ten minutes after
\* construction, true) without such an option.
C35_TimeoutIffDeadline ==
    \A d \in DOMAIN T :
        LET r == RootOf(d)
            o == g[r].opts
            kd == LastOf(o, {"WithTimeout", "WithDeadline"})
            dl == Deadline(T, d)
        IN  /\ dl[2] <=> dl[1] # ZeroTime
            /\ IF kd = 0 THEN dl = <<g[r].now + DefaultTimeout, TRUE>>
               ELSE IF o[kd].opt = "WithTimeout"
                    THEN IF o[kd].d > 0 THEN dl = <<g[r].now + o[kd].d, TRUE>>
                         ELSE dl = <<ZeroTime, FALSE>>
                    ELSE IF o[kd].d # ZeroTime THEN dl = <<o[kd].d, TRUE>>
                         ELSE dl = <<ZeroTime, FALSE>>

\* A sub-test of a sub-test of a *T made with a positive and then a negative
\* timeout: no timeout.
C35_Witness ==
    /\ Len(T) = 3
    /\ g[1].opts = <<WithTimeout(5), WithTimeout(-1)>>
    /\ g[3].parent = 2
    /\ g[2].parent = 1
    /\ Deadline(T, 3) = <<ZeroTime, FALSE>>

\* C36: after Run calls issued one after another on a *T, its set of used
\* names holds exactly the short names of its sub-tests, one for each: the
\* name of each sub-test without the parent's prefix is in the set,
\* nothing else is, and the set has as many names as there are sub-tests.
C36_UsedNamesAreChildren ==
    \A d \in DOMAIN T :
        /\ T[d].subtestNames = {Short(d, Subtests(T, d)[i]) : i \in 1..Len(Subtests(T, d))}
        /\ Cardinality(T[d].subtestNames) = Len(Subtests(T, d))

\* Run("a"), Run("a#01"), Run("a"): the third sub-test is "a#02" and the
\* set holds the three names.
C36_Witness ==
    /\ Len(Subtests(T, 1)) = 3
    /\ g[2].req = <<"a">> /\ g[3].req = <<"a", "#", "0", "1">> /\ g[4].req = <<"a">>
    /\ T[1].subtestNames = {<<"a">>, <<"a", "#", "0", "1">>, <<"a", "#", "0", "2">>}

\* Goroutine q is about to execute the first statement of the body of a
\* Run call.
BodyStarts(q) == Body(q) /\ th[q].pc = "run" /\ th[q].n = 0

\* Nothing is recorded on the *T.
Unrecorded(t) ==
    /\ t.failed = 0 /\ ~t.skipped /\ ~t.aborted /\ ~t.parallel
    /\ t.output = <<>> /\ t.helpers = <<>> /\ t.cleanups = <<>>
    /\ t.env = <<>> /\ t.tempdirs = <<>> /\ t.subtests = <<>>

\* C37: when the body of a Run call starts, the sub-test it is given has
\* failure count 0, is not skipped, aborted or parallel, and has no output,
\* helpers, cleanups, environment, directories or sub-tests, whatever the
\* parent has recorded.
C37_ChildStartsFresh ==
    \A q \in DOMAIN th : BodyStarts(q) => Unrecorded(T[th[q].t])

\* The body of a sub-test starts while its parent is failed and aborted
\* (FailNow was called on the parent in a goroutine of its own).
C37_Witness ==
    \E q \in DOMAIN th :
        /\ BodyStarts(q)
        /\ g[th[q].t].parent = 1
        /\ Failed(T, 1)
        /\ Aborted(T, 1)
        /\ Unrecorded(T[th[q].t])

\* The step changes no *T but d, and of d at most the named fields.
OnlyChanges(d, fields) ==
    /\ DOMAIN T' = DOMAIN T
    /\ \A e \in DOMAIN T :
        \A f \in DOMAIN T[e] : (e # d \/ f \notin fields) => T'[e][f] = T[e][f]

\* C38: Fail changes nothing but the failure count, FailNow nothing but the
\* failure count and the abort flag, SkipNow nothing but the skip and abort
\* flags, so none of them appends to the output; Log and Logf change nothing
\* but the output, so they leave the failure count and the skipped, aborted
\* and parallel flags alone; none of the five changes the helpers, the
\* cleanups, the environment, the directories or the sub-tests.
C38_PrimitivesChangeOwnField ==
    [][\A p \in DOMAIN th, d \in DOMAIN T :
          /\ CallFail(p, d) =>
                OnlyChanges(d, {"failed"}) /\ FailedCount(T', d) = FailedCount(T, d) + 1
          /\ CallFailNow(p, d) =>
                OnlyChanges(d, {"failed", "aborted"}) /\ Output(T', d) = Output(T, d)
          /\ CallSkipNow(p, d) =>
                OnlyChanges(d, {"skipped", "aborted"}) /\ Output(T', d) = Output(T, d)
          /\ \A args \in LogArgs :
                CallLog(p, d, args) =>
                    OnlyChanges(d, {"output"}) /\ Len(Output(T', d)) = Len(Output(T, d)) + 1
          /\ \A f \in LogfCalls :
                CallLogf(p, d, f) =>
                    OnlyChanges(d, {"output"}) /\ Len(Output(T', d)) = Len(Output(T, d)) + 1]_vars

\* Three calls on a *T, Setenv, Log or Logf, and Fail: the environment and
\* the output entry are there, the failure count is 1, no flag is set.
C38_Witness ==
    /\ Len(T) = 1
    /\ th[1].n = 3
    /\ Getenv(T, 1) # <<>>
    /\ Len(Output(T, 1)) = 1
    /\ FailedCount(T, 1) = 1
    /\ g[1].calls = 1
    /\ ~Aborted(T, 1) /\ ~Skipped(T, 1) /\ ~Paralleled(T, 1)

\* C39 as stated: the entry Log appends has a single space between two
\* adjacent operands only when neither of the two is a string, and nothing
\* between them when at least one is a string.
C39_SpaceOnlyBetweenNonStrings ==
    [][\A args \in ArgLists(MaxArgs) :
          CallLog(1, 1, args) =>
              Output(T', 1)[Len(Output(T', 1))] = Sprint(args) \o <<"\n">>]_vars

RECURSIVE EndOf(_, _)
\* The position in Log's entry of the last byte of the text of operand i.
EndOf(args, i) == IF i = 0 THEN 0 ELSE EndOf(args, i - 1) + (IF i > 1 THEN 1 ELSE 0) + Len(args[i].text)

\* C39, amended: in the entry Log appends, the text of every operand but
\* the last is followed by exactly one space and then the text of the next
\* operand, whether or not either of them is a string; the newline follows
\* the last text.
C39_SpaceBetweenAll ==
    [][\A args \in ArgLists(MaxArgs) :
          CallLog(1, 1, args) =>
              LET e == Output(T', 1)[Len(Output(T', 1))]
              IN  /\ Len(e) = EndOf(args, Len(args)) + 1
                  /\ e[Len(e)] = "\n"
                  /\ \A i \in 1..Len(args) :
                        /\ SubSeq(e, EndOf(args, i) - Len(args[i].text) + 1, EndOf(args, i))
                                = args[i].text
                        /\ i < Len(args) => e[EndOf(args, i) + 1] = " "]_vars

\* The one entry "a a\n": two strings, one space between them.
C39_Witness ==
    /\ Len(Output(T, 1)) = 1
    /\ Output(T, 1)[1] = <<"a", " ", "a", "\n">>

====
